---- MODULE Spec2Model ----
(***************************************************************************)
(* Model of the device link + sample decode pipeline of the pressure       *)
(* sensor web client (LiveMeasurementPage, serial / Bluetooth variant).    *)
(*                                                                         *)
(* React state (mode, connStatus, isRunning, csvEnabled, folderHandle,     *)
(* gainValue, liveData) is read by a handler from the closure of the       *)
(* render in which the handler was created: every operator that models a   *)
(* handler takes that closure as its parameter c and the live state as s.  *)
(* Refs (serialPortRef, streamingRef, ...) are always read live, from s.   *)
(***************************************************************************)
EXTENDS Integers, Sequences, FiniteSets, TLC

(* ----------------------------- bounds ---------------------------------- *)

\* frames the live buffer may hold (counted from either end of its range) when
\* a further chunk or notification is delivered
MaxFrames == 1
\* listeners that may pile up on one RX characteristic
MaxListeners == 2
\* GATT links left open on devices the adapter no longer holds
MaxStale == 1

(* ------------------------- program constants --------------------------- *)

MAX_PLOT == 2000
maxConnectAttempts == 3

NULL == "null"

(* ----------------------------- bit helpers ----------------------------- *)

RECURSIVE BitAnd(_, _)
BitAnd(a, b) ==
  IF a = 0 \/ b = 0 THEN 0
  ELSE (IF a % 2 = 1 /\ b % 2 = 1 THEN 1 ELSE 0) + 2 * BitAnd(a \div 2, b \div 2)

RECURSIVE BitOr(_, _)
BitOr(a, b) ==
  IF a = 0 THEN b
  ELSE IF b = 0 THEN a
  ELSE (IF a % 2 = 1 \/ b % 2 = 1 THEN 1 ELSE 0) + 2 * BitOr(a \div 2, b \div 2)

RECURSIVE Pow2(_)
Pow2(n) == IF n = 0 THEN 1 ELSE 2 * Pow2(n - 1)

Shl(a, n) == a * Pow2(n)

(* ------------------------------ decoding ------------------------------- *)

\* bytes[i] of a Uint8Array, 0-based; an index past the end reads undefined,
\* which the bitwise operators of lines 137-138 coerce to 0
ByteAt(bytes, i) == IF i < Len(bytes) THEN bytes[i + 1] ELSE 0

\* decodeV1 that takes the low nibble of b2
decodeV1LowNibble(b0, b2) == BitOr(BitAnd(Shl(b2, 8), 3840), b0) - 2048

\* decodeV2 without the 0x0F00 mask
decodeV2NoMask(b1, b2) == BitOr(Shl(b2, 8), b1) - 2048

decodeV1(b0, b2) == BitOr(BitAnd(Shl(b2, 4), 3840), b0) - 2048
decodeV2(b1, b2) == BitOr(BitAnd(Shl(b2, 8), 3840), b1) - 2048

\* decodeBytesToSamples that pushes v2 before v1
decodeBytesV2First(bytes) ==
  [ k \in 1..36 |->
      LET i == 3 * ((k - 1) \div 2)
      IN  IF k % 2 = 0 THEN decodeV1(ByteAt(bytes, i), ByteAt(bytes, i + 2))
          ELSE decodeV2(ByteAt(bytes, i + 1), ByteAt(bytes, i + 2)) ]

\* the loop of lines 132-142 runs for i = 0, 3, ..., 51 and pushes v1 then v2:
\* sample k (1-based) comes from the triplet at i = 3 * ((k - 1) \div 2)
decodeBytesToSamples(bytes) ==
  [ k \in 1..36 |->
      LET i == 3 * ((k - 1) \div 2)
      IN  IF k % 2 = 1 THEN decodeV1(ByteAt(bytes, i), ByteAt(bytes, i + 2))
          ELSE decodeV2(ByteAt(bytes, i + 1), ByteAt(bytes, i + 2)) ]

HexDigits == << "0", "1", "2", "3", "4", "5", "6", "7",
                "8", "9", "A", "B", "C", "D", "E", "F" >>
LowerHex == [ c \in {"a", "b", "c", "d", "e", "f"} |->
                CASE c = "a" -> 10 [] c = "b" -> 11 [] c = "c" -> 12
                  [] c = "d" -> 13 [] c = "e" -> 14 [] c = "f" -> 15 ]

IsHexChar(c) == (\E k \in 1..16 : HexDigits[k] = c) \/ c \in DOMAIN LowerHex

HexVal(c) ==
  IF c \in DOMAIN LowerHex THEN LowerHex[c]
  ELSE (CHOOSE k \in 1..16 : HexDigits[k] = c) - 1

\* parseInt(hexString.substr(i, 2), 16) stored into a Uint8Array: the longest
\* hex prefix of the (at most two) characters; NaN is stored as 0
parseHexPair(str, i) ==
  LET c1 == str[i + 1]
      has2 == i + 1 < Len(str)
  IN  IF ~IsHexChar(c1) THEN 0
      ELSE IF has2 /\ IsHexChar(str[i + 2]) THEN 16 * HexVal(c1) + HexVal(str[i + 2])
      ELSE HexVal(c1)

\* the loop of lines 124-126: one byte per started pair of characters
hexToBytes(hexString) ==
  [ k \in 1..((Len(hexString) + 1) \div 2) |-> parseHexPair(hexString, 2 * (k - 1)) ]

decodeHexToSamples(hexString) == decodeBytesToSamples(hexToBytes(hexString))

(* --------------------------- serial framing ---------------------------- *)

IsWs(ch) == ch \in {" ", "\t", "\r", "\n"}

SetMin(S) == CHOOSE p \in S : \A q \in S : p <= q
SetMax(S) == CHOOSE p \in S : \A q \in S : p >= q

\* the first position from p on that holds no whitespace (one past the end if none)
SkipWs(str, p) ==
  LET S == { q \in p..Len(str) : ~IsWs(str[q]) }
  IN  IF S = {} THEN (IF p > Len(str) THEN p ELSE Len(str) + 1) ELSE SetMin(S)

\* the first position from p on that holds no hex digit (one past the end if none)
SkipHex(str, p) ==
  LET S == { q \in p..Len(str) : ~IsHexChar(str[q]) }
  IN  IF S = {} THEN (IF p > Len(str) THEN p ELSE Len(str) + 1) ELSE SetMin(S)

\* the last position up to p that holds no whitespace (0 if none)
LastNonWs(str, p) ==
  LET S == { q \in 1..p : ~IsWs(str[q]) }
  IN  IF S = {} THEN 0 ELSE SetMax(S)

\* String.prototype.trim
trim(str) ==
  LET a == SkipWs(str, 1)
      b == LastNonWs(str, Len(str))
  IN  IF a > b THEN << >> ELSE SubSeq(str, a, b)

\* buffer.indexOf('\n'), 1-based; 0 when there is none
indexOfNewline(str) ==
  LET S == { q \in 1..Len(str) : str[q] = "\n" }
  IN  IF S = {} THEN 0 ELSE SetMin(S)

\* line.match(/^\s*([0-9A-Fa-f]+)\s*:\s*([0-9A-Fa-f]{108})\s*$/): the two
\* groups, or no match.  The three character classes are disjoint, so the greedy
\* scan is the only possible match.
matchLine(line) ==
  LET p1 == SkipWs(line, 1)
      p2 == SkipHex(line, p1)
      p3 == SkipWs(line, p2)
      p4 == SkipWs(line, p3 + 1)
      p5 == SkipHex(line, p4)
      p6 == SkipWs(line, p5)
  IN  IF /\ p2 > p1
         /\ p3 <= Len(line) /\ line[p3] = ":"
         /\ p5 - p4 = 108
         /\ p6 = Len(line) + 1
      THEN [ok |-> TRUE, seqHex |-> SubSeq(line, p1, p2 - 1),
            hexData |-> SubSeq(line, p4, p5 - 1)]
      ELSE [ok |-> FALSE, seqHex |-> << >>, hexData |-> << >>]

RECURSIVE parseIntHex(_, _)
parseIntHex(str, acc) ==
  IF str = << >> THEN acc ELSE parseIntHex(Tail(str), 16 * acc + HexVal(Head(str)))

(* ---------------------------- live buffer ------------------------------ *)

\* mergeSamples with x assigned when a point is pushed and not re-assigned after
\* the trim
mergeSamplesNoReindex(prev, samples, seqNo) ==
  LET pushed == prev \o [ i \in 1..Len(samples) |->
                   [x |-> Len(prev) + i - 1, raw |-> samples[i], filtered |-> samples[i],
                    seq |-> seqNo] ]
  IN  IF Len(pushed) > MAX_PLOT
      THEN SubSeq(pushed, Len(pushed) - MAX_PLOT + 1, Len(pushed))
      ELSE pushed

\* the updater passed to setLiveData (lines 290-307 and 580-597)
mergeSamples(prev, samples, seqNo) ==
  LET pushed == prev \o [ i \in 1..Len(samples) |->
                   [x |-> 0, raw |-> samples[i], filtered |-> samples[i], seq |-> seqNo] ]
      next == IF Len(pushed) > MAX_PLOT
              THEN SubSeq(pushed, Len(pushed) - MAX_PLOT + 1, Len(pushed))
              ELSE pushed
  IN  [ i \in 1..Len(next) |-> [next[i] EXCEPT !.x = i - 1] ]

(* ---------------------------- inbound data ----------------------------- *)

FrameA == [ i \in 1..54 |-> (37 * i + 11) % 256 ]
FrameB == [ i \in 1..54 |-> CASE i % 3 = 1 -> 52 [] i % 3 = 2 -> 18 [] OTHER -> 1 ]

\* the device's text encoding of a payload: two uppercase hex digits per byte
toHexText(bytes) ==
  [ k \in 1..(2 * Len(bytes)) |->
      LET b == bytes[(k + 1) \div 2]
      IN  IF k % 2 = 1 THEN HexDigits[(b \div 16) + 1] ELSE HexDigits[(b % 16) + 1] ]

LineA == << "0", "A", ":" >> \o toHexText(FrameA)
LineB == << "1", "f", "e", " ", ":", " " >> \o toHexText(FrameB)
LineShort == << "0", "B", ":" >> \o toHexText(SubSeq(FrameA, 1, 53)) \o << "0" >>

ChunkA == LineA \o << "\r", "\n" >>
ChunkBHead == SubSeq(LineB, 1, 40)
ChunkBTail == SubSeq(LineB, 41, Len(LineB)) \o << "\n" >>
ChunkShort == LineShort \o << "\n" >>
SerialChunks == { "A", "Short" }
SerialChunk(name) ==
  CASE name = "A" -> ChunkA [] name = "BHead" -> ChunkBHead
    [] name = "BTail" -> ChunkBTail [] name = "Short" -> ChunkShort

PacketA == << 0, 19 >> \o FrameA
PacketB == << 0, 4 >> \o FrameB \o << 7, 7 >>
PacketMarker == << 1, 5 >> \o FrameA
PacketShort == << 0, 6 >> \o SubSeq(FrameA, 1, 53)
BLEPackets == { "A", "Marker", "Short" }
BLEPacket(name) ==
  CASE name = "A" -> PacketA [] name = "B" -> PacketB
    [] name = "Marker" -> PacketMarker [] name = "Short" -> PacketShort

(* ------------------------------- state --------------------------------- *)

VARIABLES
  mode,                 \* useState: 'serial' | 'bluetooth'
  isRunning,            \* useState: run status
  liveData,             \* useState: LivePoint[]
  connStatus,           \* useState: 'disconnected' | 'connected' | 'error'
  csvEnabled,           \* useState
  folderHandle,         \* useState: TRUE when a directory handle is held
  serialPortRef,        \* useRef: NULL or "port"
  serialReaderRef,      \* useRef: NULL or "reader"
  bleDeviceRef,         \* useRef: [held, server, linkUp]; held = FALSE when null
  streamingRef,         \* useRef
  bleHandlerRef,        \* useRef: NoHandler or the id of a listener
  csvDataRef,           \* useRef: number[]
  supportsWebSerial,    \* 'serial' in navigator
  supportsWebBluetooth, \* 'bluetooth' in navigator
  readLoop,             \* the pending readSerialData call: [active, csvEnabled, buffer]
  rxListeners,          \* 'characteristicvaluechanged' listeners on the RX characteristic
  staleLinks,           \* devices not held by the adapter whose disconnect event is still to come
  argHexString,         \* the hexString argument of a call of decodeHexToSamples
  argBytes,             \* the bytes argument of a call of decodeBytesToSamples
  retSamples,           \* the samples the call returned; << >> before it returns
  inbound               \* a scripted byte stream of the port: [name, pos], pos characters read

vars == << mode, isRunning, liveData, connStatus, csvEnabled, folderHandle,
           serialPortRef, serialReaderRef, bleDeviceRef, streamingRef, bleHandlerRef,
           csvDataRef, supportsWebSerial, supportsWebBluetooth, readLoop, rxListeners,
           staleLinks, argHexString, argBytes, retSamples, inbound >>

Modes == { "serial", "bluetooth" }
ConnStatuses == { "disconnected", "connected", "error" }
GainInputs == { "0", "15", "7", "-1", "16", "3.5", "", " ", "abc" }

\* bleHandlerRef.current = null
NoHandler == 0

\* bleDeviceRef.current = null
NoDevice == [held |-> FALSE, server |-> FALSE, linkUp |-> FALSE]

\* no scripted byte stream: the chunks of the port arrive as SerialData picks them
NoStream == [name |-> "none", pos |-> 0]

NoLoop == [active |-> FALSE, csvEnabled |-> FALSE, buffer |-> << >>]

\* The state a step starts from.  Five more fields collect what the step does:
\* logs (the entries it passes to addLog), calls (its calls on transport and
\* file-system objects, in call order), fileWritten (the documents it passes to
\* writable.write), flushes (its invocations of saveCSVIfEnabled) and uncaught
\* (an exception left the handler).  They belong to the step and are not kept
\* in the state.  Every call that can throw lies inside a try block of its
\* handler, so no handler sets uncaught.
Cur ==
  [ mode |-> mode, isRunning |-> isRunning, liveData |-> liveData,
    connStatus |-> connStatus, csvEnabled |-> csvEnabled, folderHandle |-> folderHandle,
    serialPortRef |-> serialPortRef, serialReaderRef |-> serialReaderRef,
    bleDeviceRef |-> bleDeviceRef, streamingRef |-> streamingRef,
    bleHandlerRef |-> bleHandlerRef, csvDataRef |-> csvDataRef,
    supportsWebSerial |-> supportsWebSerial, supportsWebBluetooth |-> supportsWebBluetooth,
    readLoop |-> readLoop, rxListeners |-> rxListeners, staleLinks |-> staleLinks,
    logs |-> << >>, calls |-> << >>, fileWritten |-> << >>, flushes |-> 0,
    uncaught |-> FALSE ]

\* the state a step ends in becomes the next state
CommitApp(s) ==
  /\ mode' = s.mode
  /\ isRunning' = s.isRunning
  /\ liveData' = s.liveData
  /\ connStatus' = s.connStatus
  /\ csvEnabled' = s.csvEnabled
  /\ folderHandle' = s.folderHandle
  /\ serialPortRef' = s.serialPortRef
  /\ serialReaderRef' = s.serialReaderRef
  /\ bleDeviceRef' = s.bleDeviceRef
  /\ streamingRef' = s.streamingRef
  /\ bleHandlerRef' = s.bleHandlerRef
  /\ csvDataRef' = s.csvDataRef
  /\ supportsWebSerial' = s.supportsWebSerial
  /\ supportsWebBluetooth' = s.supportsWebBluetooth
  /\ readLoop' = s.readLoop
  /\ rxListeners' = s.rxListeners
  /\ staleLinks' = s.staleLinks

Commit(s) ==
  /\ CommitApp(s)
  /\ UNCHANGED << argHexString, argBytes, retSamples, inbound >>

addLog(s, type, message) == [s EXCEPT !.logs = Append(@, << type, message >>)]

\* a call on a transport or file-system object, recorded in call order
Call(s, op, data) == [s EXCEPT !.calls = Append(@, [op |-> op, data |-> data])]

Min(a, b) == IF a < b THEN a ELSE b

(* --------------------------- serial adapter ---------------------------- *)

\* lines 314-315: the loop left its while
readLoopExit(s) ==
  [ Call(s, "reader.releaseLock", << >>) EXCEPT !.serialReaderRef = NULL, !.readLoop = NoLoop ]

\* reader.read() resolved with done = true: lines 258-261
readLoopEnd(s) == readLoopExit(addLog(s, "warning", "Serial stream ended"))

\* The read loop is suspended in `await reader.read()` whenever another
\* handler runs.  reader.cancel() closes the stream, which resolves that read
\* with done = true, before it asks the port to cancel; the loop's continuation
\* (lines 258-261, 314-315) runs before the caller resumes, whether the promise
\* of cancel() is then fulfilled or rejected.
readLoopDone(s) == IF s.readLoop.active THEN readLoopEnd(s) ELSE s

\* lines 157-177 of connectSerial
connectSerialCleanup(s, o) ==
  IF s.serialPortRef = NULL THEN s
  ELSE
    LET s1 == [s EXCEPT !.streamingRef = FALSE]
        s2 == IF s1.serialReaderRef = NULL THEN s1 ELSE Call(s1, "reader.cancel", << >>)
        cancelThrew == s1.serialReaderRef # NULL /\ ~o.cancel
        s3 == IF s1.serialReaderRef = NULL THEN s2
              ELSE IF cancelThrew THEN readLoopDone(s2)
              ELSE [readLoopDone(s2) EXCEPT !.serialReaderRef = NULL]
        s4 == IF cancelThrew THEN s3 ELSE Call(s3, "port.close", << >>)
        s5 == IF cancelThrew \/ ~o.close THEN s4
              ELSE addLog(s4, "info", "Closed previous serial port")
    IN  [s5 EXCEPT !.serialPortRef = NULL]

\* connectSerialCatch without setConnStatus('error')
connectSerialCatchKeepsStatus(s, errName) ==
  LET s1 == IF errName = "NotFoundError" THEN addLog(s, "info", "No port selected")
            ELSE addLog(s, "error", "Serial connection failed")
  IN  IF s1.serialPortRef = NULL THEN s1
      ELSE [ Call(s1, "port.close", << >>) EXCEPT !.serialPortRef = NULL ]

\* lines 199-215 of connectSerial
connectSerialCatch(s, errName) ==
  LET s1 == IF errName = "NotFoundError" THEN addLog(s, "info", "No port selected")
            ELSE [ addLog(s, "error", "Serial connection failed")
                     EXCEPT !.connStatus = "error" ]
  IN  IF s1.serialPortRef = NULL THEN s1
      ELSE [ Call(s1, "port.close", << >>) EXCEPT !.serialPortRef = NULL ]

connectSerial(c, s, o) ==
  IF ~s.supportsWebSerial THEN addLog(s, "error", "Web Serial API not supported")
  ELSE
    LET s1 == addLog(connectSerialCleanup(s, o), "info", "Requesting serial port...")
        s2 == Call(s1, "serial.requestPort", << >>)
    IN  IF o.request # "ok" THEN connectSerialCatch(s2, o.request)
        ELSE
          LET s3 == Call(s2, "port.open", << >>)
          IN  IF ~o.open THEN connectSerialCatch(s3, "NetworkError")
              ELSE
                LET s4 == addLog(s3, "info", "Serial port opened")
                    s5 == [s4 EXCEPT !.serialPortRef = "port", !.connStatus = "connected"]
                IN  addLog(s5, "info", "Serial device connected and ready")

\* the synchronous part of readSerialData, up to its first await of reader.read()
readSerialData(c, s, o) ==
  IF s.serialPortRef = NULL \/ ~s.streamingRef THEN s
  ELSE
    LET s1 == Call(s, "readable.getReader", << >>)
    IN  IF s.readLoop.active \/ ~o.getReader
        THEN \* getReader threw (the stream is locked or errored): lines 317-332
          LET s2 == IF s1.streamingRef
                    THEN [ addLog(s1, "error", "Serial read error")
                             EXCEPT !.streamingRef = FALSE, !.isRunning = FALSE ]
                    ELSE s1
          IN  IF s2.serialReaderRef = NULL THEN s2
              ELSE \* releasing the old reader rejects the old loop's pending read
                [ Call(s2, "reader.releaseLock", << >>)
                    EXCEPT !.serialReaderRef = NULL, !.readLoop = NoLoop ]
        ELSE [ s1 EXCEPT !.serialReaderRef = "reader",
                         !.readLoop = [active |-> TRUE, csvEnabled |-> c.csvEnabled,
                                       buffer |-> << >>] ]

startSerialStreaming(c, s, o) ==
  IF s.serialPortRef = NULL THEN addLog(s, "error", "No serial port connected")
  ELSE
    LET s1 == Call(s, "serial.write", << "S", "0", "\r", "\n" >>)
    IN  IF ~o.write
        THEN [ addLog(s1, "error", "Serial streaming failed")
                 EXCEPT !.streamingRef = FALSE, !.isRunning = FALSE ]
        ELSE
          LET s2 == [s1 EXCEPT !.streamingRef = TRUE, !.isRunning = TRUE]
          IN  readSerialData(c, addLog(s2, "info", "Serial streaming started"), o)

(* ------------------------------ CSV ------------------------------------ *)

FileSteps == << "file.getFileHandle", "file.createWritable", "file.write", "file.close" >>
FileOutcomes == { "ok", "file.getFileHandle", "file.createWritable", "file.write", "file.close" }

RECURSIVE fileCalls(_, _, _)
fileCalls(s, k, failing) ==
  IF k > Len(FileSteps) THEN s
  ELSE LET s1 == Call(s, FileSteps[k], << >>)
       IN  IF FileSteps[k] = failing THEN s1 ELSE fileCalls(s1, k + 1, failing)

\* csvContent of lines 681-684: the header and one row per sample
csvContent(data) ==
  [ header |-> "index,raw", rows |-> [ i \in 1..Len(data) |-> << i - 1, data[i] >> ] ]

\* saveCSVIfEnabled whose catch block keeps the buffer
saveCSVKeepsOnFailure(c, s, o) ==
  IF ~c.csvEnabled \/ ~c.folderHandle \/ Len(s.csvDataRef) = 0
  THEN [s EXCEPT !.csvDataRef = << >>, !.flushes = @ + 1]
  ELSE
    LET s0 == [s EXCEPT !.flushes = @ + 1]
        s1 == fileCalls(s0, 1, o.file)
        s2 == IF o.file \in { "ok", "file.write", "file.close" }
              THEN [s1 EXCEPT !.fileWritten = Append(@, csvContent(s.csvDataRef))]
              ELSE s1
    IN  IF o.file = "ok"
        THEN [addLog(s2, "response", "CSV saved") EXCEPT !.csvDataRef = << >>]
        ELSE addLog(s2, "error", "Failed to save CSV")

\* saveCSVIfEnabled without the test for an empty buffer
saveCSVNoEmptyTest(c, s, o) ==
  IF ~c.csvEnabled \/ ~c.folderHandle
  THEN [s EXCEPT !.csvDataRef = << >>, !.flushes = @ + 1]
  ELSE
    LET s0 == [s EXCEPT !.flushes = @ + 1]
        s1 == fileCalls(s0, 1, o.file)
        s2 == IF o.file \in { "ok", "file.write", "file.close" }
              THEN [s1 EXCEPT !.fileWritten = Append(@, csvContent(s.csvDataRef))]
              ELSE s1
        s3 == IF o.file = "ok" THEN addLog(s2, "response", "CSV saved")
              ELSE addLog(s2, "error", "Failed to save CSV")
    IN  [s3 EXCEPT !.csvDataRef = << >>]

saveCSVIfEnabled(c, s, o) ==
  IF ~c.csvEnabled \/ ~c.folderHandle \/ Len(s.csvDataRef) = 0
  THEN [s EXCEPT !.csvDataRef = << >>, !.flushes = @ + 1]
  ELSE
    LET s0 == [s EXCEPT !.flushes = @ + 1]
        s1 == fileCalls(s0, 1, o.file)
        s2 == IF o.file \in { "ok", "file.write", "file.close" }
              THEN [s1 EXCEPT !.fileWritten = Append(@, csvContent(s.csvDataRef))]
              ELSE s1
        s3 == IF o.file = "ok" THEN addLog(s2, "response", "CSV saved")
              ELSE addLog(s2, "error", "Failed to save CSV")
    IN  [s3 EXCEPT !.csvDataRef = << >>]

(* ----------------------- serial adapter, continued --------------------- *)

\* stopSerialStreaming that writes the stop command before it cancels the reader
stopSerialWritesFirst(c, s, o) ==
  IF s.serialPortRef = NULL THEN s
  ELSE
    LET s1 == [s EXCEPT !.streamingRef = FALSE]
        s2 == Call(s1, "serial.write", << "B", "0", "\r", "\n" >>)
        hasReader == s1.serialReaderRef # NULL
    IN  IF ~o.write THEN addLog(s2, "error", "Serial stop error")
        ELSE
          LET s3 == IF hasReader THEN Call(s2, "reader.cancel", << >>) ELSE s2
          IN  IF hasReader /\ ~o.cancel
              THEN addLog(readLoopDone(s3), "error", "Serial stop error")
              ELSE
                LET s4 == IF hasReader
                          THEN [readLoopDone(s3) EXCEPT !.serialReaderRef = NULL]
                          ELSE s3
                    s5 == addLog([s4 EXCEPT !.isRunning = FALSE], "info",
                                 "Serial streaming stopped")
                IN  saveCSVIfEnabled(c, s5, o)

stopSerialStreaming(c, s, o) ==
  IF s.serialPortRef = NULL THEN s
  ELSE
    LET s1 == [s EXCEPT !.streamingRef = FALSE]
        hasReader == s1.serialReaderRef # NULL
        s2 == IF hasReader THEN Call(s1, "reader.cancel", << >>) ELSE s1
    IN  IF hasReader /\ ~o.cancel THEN addLog(readLoopDone(s2), "error", "Serial stop error")
        ELSE
          LET s3 == IF hasReader THEN [readLoopDone(s2) EXCEPT !.serialReaderRef = NULL]
                    ELSE s2
              s4 == Call(s3, "serial.write", << "B", "0", "\r", "\n" >>)
          IN  IF ~o.write THEN addLog(s4, "error", "Serial stop error")
              ELSE
                LET s5 == addLog([s4 EXCEPT !.isRunning = FALSE], "info",
                                 "Serial streaming stopped")
                IN  saveCSVIfEnabled(c, s5, o)

\* Number.prototype.toString(16).toUpperCase() of a non-negative integer
RECURSIVE toHexUpper(_)
toHexUpper(n) ==
  IF n < 16 THEN << HexDigits[n + 1] >>
  ELSE toHexUpper(n \div 16) \o << HexDigits[(n % 16) + 1] >>

\* setSerialGain without toUpperCase()
setSerialGainLowerCase(c, s, newGain, o) ==
  IF s.serialPortRef = NULL THEN s
  ELSE
    LET lower(d) == CASE d = "A" -> "a" [] d = "B" -> "b" [] d = "C" -> "c"
                      [] d = "D" -> "d" [] d = "E" -> "e" [] d = "F" -> "f"
                      [] OTHER -> d
        hex == toHexUpper(newGain)
        gainHex == [ k \in 1..Len(hex) |-> lower(hex[k]) ]
        s1 == Call(s, "serial.write", << "G" >> \o gainHex \o << "\r", "\n" >>)
    IN  IF ~o.write THEN addLog(s1, "error", "Serial gain error")
        ELSE addLog(s1, "info", "Serial gain set")

setSerialGain(c, s, newGain, o) ==
  IF s.serialPortRef = NULL THEN s
  ELSE
    LET s1 == Call(s, "serial.write", << "G" >> \o toHexUpper(newGain) \o << "\r", "\n" >>)
    IN  IF ~o.write THEN addLog(s1, "error", "Serial gain error")
        ELSE addLog(s1, "info", "Serial gain set")

\* lines 277-308: one complete line of the read loop
processLine(lc, s, line) ==
  LET m == matchLine(line)
  IN  IF line = << >> \/ ~m.ok THEN s
      ELSE
        LET seqNo == parseIntHex(m.seqHex, 0) % 256
            samples == decodeHexToSamples(m.hexData)
            s1 == IF lc.csvEnabled THEN [s EXCEPT !.csvDataRef = @ \o samples] ELSE s
        IN  [s1 EXCEPT !.liveData = mergeSamples(@, samples, seqNo)]

\* lines 268-310: the inner while loop over the complete lines of the buffer
RECURSIVE processBuffer(_, _)
processBuffer(lc, s) ==
  LET buffer == s.readLoop.buffer
      newlineIndex == indexOfNewline(buffer)
  IN  IF newlineIndex = 0 THEN s
      ELSE
        LET line == trim(SubSeq(buffer, 1, newlineIndex - 1))
            rest == SubSeq(buffer, newlineIndex + 1, Len(buffer))
            s1 == [s EXCEPT !.readLoop.buffer = rest]
        IN  processBuffer(lc, processLine(lc, s1, line))

\* readLoopChunk whose buffer holds the new chunk only
readLoopChunkNoCarry(s, chunk) ==
  LET lc == s.readLoop
      s1 == [s EXCEPT !.readLoop.buffer = chunk]
      s2 == processBuffer(lc, s1)
  IN  IF s2.streamingRef THEN s2 ELSE readLoopExit(s2)

\* reader.read() resolved with a chunk: lines 263-312, then the loop test of line 255
readLoopChunk(s, chunk) ==
  LET lc == s.readLoop
      s1 == [s EXCEPT !.readLoop.buffer = @ \o chunk]
      s2 == processBuffer(lc, s1)
  IN  IF s2.streamingRef THEN s2 ELSE readLoopExit(s2)

\* readLoopError whose catch block does not release the reader lock
readLoopErrorKeepsLock(s) ==
  IF s.streamingRef
  THEN [ addLog(s, "error", "Serial read error")
           EXCEPT !.streamingRef = FALSE, !.isRunning = FALSE ]
  ELSE s

\* reader.read() rejected: lines 317-332
readLoopError(s) ==
  LET s1 == IF s.streamingRef
            THEN [ addLog(s, "error", "Serial read error")
                     EXCEPT !.streamingRef = FALSE, !.isRunning = FALSE ]
            ELSE s
      s2 == IF s1.serialReaderRef = NULL THEN s1
            ELSE [ Call(s1, "reader.releaseLock", << >>) EXCEPT !.serialReaderRef = NULL ]
  IN  [s2 EXCEPT !.readLoop = NoLoop]

(* ----------------------------- BLE adapter ---------------------------- *)

\* a device the adapter lets go of while its GATT link is up, or right after
\* server.disconnect(): its 'gattserverdisconnected' event is still to come
addStale(s) == [s EXCEPT !.staleLinks = Min(@ + 1, MaxStale)]

removeListener(listeners, id) == SelectSeq(listeners, LAMBDA l : l.id # id)

\* disconnectHandler without setIsRunning(false)
disconnectHandlerKeepsRunning(s) ==
  LET s1 == addLog(s, "warning", "BLE device disconnected unexpectedly")
      s2 == [s1 EXCEPT !.connStatus = "disconnected", !.streamingRef = FALSE]
  IN  IF ~s2.bleDeviceRef.held THEN s2 ELSE [s2 EXCEPT !.bleDeviceRef.server = FALSE]

\* lines 434-443
disconnectHandler(s) ==
  LET s1 == addLog(s, "warning", "BLE device disconnected unexpectedly")
      s2 == [s1 EXCEPT !.connStatus = "disconnected", !.streamingRef = FALSE,
                       !.isRunning = FALSE]
  IN  IF ~s2.bleDeviceRef.held THEN s2 ELSE [s2 EXCEPT !.bleDeviceRef.server = FALSE]

\* lines 394-422 of connectBLE
connectBLECleanup(s, o) ==
  IF ~s.bleDeviceRef.held THEN s
  ELSE
    LET dev == s.bleDeviceRef
        s1 == [s EXCEPT !.streamingRef = FALSE]
        s2 == IF s1.bleHandlerRef = NoHandler THEN s1
              ELSE [s1 EXCEPT !.rxListeners = removeListener(@, s1.bleHandlerRef),
                              !.bleHandlerRef = NoHandler]
        s3 == Call(s2, "rxChar.stopNotifications", << >>)
        s4 == IF dev.server /\ dev.linkUp THEN Call(s3, "server.disconnect", << >>) ELSE s3
        s5 == IF dev.linkUp THEN addStale(s4) ELSE s4
        s6 == addLog(s5, "info", "Disconnected previous BLE device")
    IN  [s6 EXCEPT !.bleDeviceRef = NoDevice, !.rxListeners = << >>]

\* lines 502-526 of connectBLE
connectBLECatch(s, message) ==
  LET s1 == [ addLog(s, "error", message)
                EXCEPT !.connStatus = "error" ]
  IN  IF ~s1.bleDeviceRef.held THEN s1
      ELSE
        LET dev == s1.bleDeviceRef
            s2 == IF dev.server /\ dev.linkUp
                  THEN addStale(Call(s1, "server.disconnect", << >>))
                  ELSE s1
        IN  [s2 EXCEPT !.bleDeviceRef = NoDevice, !.rxListeners = << >>]

\* the retry loop with one attempt more than maxConnectAttempts
RECURSIVE gattConnectLoopOneMore(_, _, _)
gattConnectLoopOneMore(s, connectAttempts, o) ==
  LET s1 == Call(s, "gatt.connect", << >>)
  IN  IF connectAttempts >= o.gattFails
      THEN [st |-> addLog(s1, "info", "GATT server connected"), server |-> TRUE]
      ELSE IF connectAttempts + 1 <= maxConnectAttempts
      THEN gattConnectLoopOneMore(addLog(s1, "warning", "Connection attempt failed, retrying"),
                                  connectAttempts + 1, o)
      ELSE [st |-> s1, server |-> FALSE]

\* lines 453-466: o.gattFails attempts throw before one succeeds
RECURSIVE gattConnectLoop(_, _, _)
gattConnectLoop(s, connectAttempts, o) ==
  LET s1 == Call(s, "gatt.connect", << >>)
  IN  IF connectAttempts >= o.gattFails
      THEN [st |-> addLog(s1, "info", "GATT server connected"), server |-> TRUE]
      ELSE IF connectAttempts + 1 < maxConnectAttempts
      THEN gattConnectLoop(addLog(s1, "warning", "Connection attempt failed, retrying"),
                           connectAttempts + 1, o)
      ELSE [st |-> s1, server |-> FALSE]

\* connectBLE without the check of server.connected after the characteristics
connectBLENoSecondCheck(c, s, o) ==
  IF ~s.supportsWebBluetooth THEN addLog(s, "error", "Web Bluetooth not supported")
  ELSE
    LET s1 == addLog(connectBLECleanup(s, o), "info", "Requesting Bluetooth device...")
        s2 == Call(s1, "bluetooth.requestDevice", << >>)
    IN  IF o.request = "NotFoundError" THEN connectBLECatch(s2, "Device selection cancelled")
        ELSE IF o.request # "ok" THEN connectBLECatch(s2, "requestDevice failed")
        ELSE
          LET g == gattConnectLoop(addLog(s2, "info", "Device selected"), 0, o)
              s3 == g.st
          IN  IF ~g.server
              THEN connectBLECatch(s3, "Failed to connect to GATT server after multiple attempts.")
              ELSE IF ~o.live1
              THEN connectBLECatch(disconnectHandler(s3),
                                   "GATT server disconnected immediately after connection.")
              ELSE
                LET s4 == Call(s3, "server.getPrimaryService", << >>)
                IN  IF ~o.discover
                    THEN connectBLECatch(addStale(s4), "service discovery failed")
                    ELSE
                      LET s5 == [s4 EXCEPT !.bleDeviceRef =
                                             [held |-> TRUE, server |-> o.live2,
                                              linkUp |-> o.live2],
                                           !.rxListeners = << >>,
                                           !.connStatus = "connected"]
                      IN  addLog(s5, "info", "BLE connected and ready")

connectBLE(c, s, o) ==
  IF ~s.supportsWebBluetooth THEN addLog(s, "error", "Web Bluetooth not supported")
  ELSE
    LET s1 == addLog(connectBLECleanup(s, o), "info", "Requesting Bluetooth device...")
        s2 == Call(s1, "bluetooth.requestDevice", << >>)
    IN  IF o.request = "NotFoundError" THEN connectBLECatch(s2, "Device selection cancelled")
        ELSE IF o.request # "ok" THEN connectBLECatch(s2, "requestDevice failed")
        ELSE
          LET g == gattConnectLoop(addLog(s2, "info", "Device selected"), 0, o)
              s3 == g.st
          IN  IF ~g.server
              THEN connectBLECatch(s3, "Failed to connect to GATT server after multiple attempts.")
              ELSE IF ~o.live1
              THEN \* the link dropped during the 300 ms wait: the listener of line 445 ran
                connectBLECatch(disconnectHandler(s3),
                                "GATT server disconnected immediately after connection.")
              ELSE
                LET s4 == Call(s3, "server.getPrimaryService", << >>)
                IN  IF ~o.discover
                    THEN \* the new device stays GATT-connected and is not stored
                      connectBLECatch(addStale(s4), "service discovery failed")
                    ELSE IF ~o.live2
                    THEN connectBLECatch(disconnectHandler(s4),
                                         "Device disconnected while getting characteristics")
                    ELSE
                      LET s5 == [s4 EXCEPT !.bleDeviceRef = [held |-> TRUE, server |-> TRUE, linkUp |-> TRUE],
                                           !.rxListeners = << >>,
                                           !.connStatus = "connected"]
                      IN  addLog(s5, "info", "BLE connected and ready")

\* the smallest listener id not in use
newHandler(s) ==
  CHOOSE i \in 1..(Len(s.rxListeners) + 1) :
    \A k \in 1..Len(s.rxListeners) : s.rxListeners[k].id # i

\* a call on a characteristic succeeds only while the GATT link is up
bleOk(s, outcome) == outcome /\ s.bleDeviceRef.linkUp

startBLEStreaming(c, s, o) ==
  IF ~s.bleDeviceRef.held THEN addLog(s, "error", "No BLE device connected")
  ELSE
    LET failed(st) == [ addLog(st, "error", "BLE streaming failed")
                          EXCEPT !.streamingRef = FALSE, !.isRunning = FALSE ]
    IN  IF ~s.bleDeviceRef.server \/ ~s.bleDeviceRef.linkUp THEN failed(s)
        ELSE
          LET handler == newHandler(s)
              s1 == [s EXCEPT !.bleHandlerRef = handler]
              s2 == Call(addLog(s1, "info", "Starting notifications..."),
                         "rxChar.startNotifications", << >>)
          IN  IF ~bleOk(s, o.notify) THEN failed(s2)
              ELSE
                LET s3 == [s2 EXCEPT !.rxListeners =
                              Append(@, [id |-> handler, csvEnabled |-> c.csvEnabled])]
                    s4 == Call(addLog(s3, "info", "Notifications started"),
                               "txChar.writeValue", << 254, 0, 83, 0, 0 >>)
                IN  IF ~bleOk(s, o.write) THEN failed(s4)
                    ELSE addLog([s4 EXCEPT !.streamingRef = TRUE, !.isRunning = TRUE],
                                "info", "BLE streaming started")

\* handleBLEData without the test of the framing marker
handleBLEDataNoMarker(lc, s, data) ==
  IF Len(data) >= 56
  THEN
    LET seqNo == BitAnd(data[2], 15)
        payload == SubSeq(data, 3, 56)
        samples == decodeBytesToSamples(payload)
        s1 == IF lc.csvEnabled THEN [s EXCEPT !.csvDataRef = @ \o samples] ELSE s
    IN  [s1 EXCEPT !.liveData = mergeSamples(@, samples, seqNo)]
  ELSE s

\* lines 564-600; lc is the listener, whose closure holds csvEnabled
handleBLEData(lc, s, data) ==
  IF Len(data) >= 56 /\ data[1] = 0
  THEN
    LET seqNo == BitAnd(data[2], 15)
        payload == SubSeq(data, 3, 56)
        samples == decodeBytesToSamples(payload)
        s1 == IF lc.csvEnabled THEN [s EXCEPT !.csvDataRef = @ \o samples] ELSE s
    IN  [s1 EXCEPT !.liveData = mergeSamples(@, samples, seqNo)]
  ELSE s

\* one notification, dispatched to the registered listeners in registration order
RECURSIVE dispatchNotification(_, _, _)
dispatchNotification(s, k, data) ==
  IF k > Len(s.rxListeners) THEN s
  ELSE dispatchNotification(handleBLEData(s.rxListeners[k], s, data), k + 1, data)

stopBLEStreaming(c, s, o) ==
  IF ~s.bleDeviceRef.held THEN s
  ELSE
    LET s1 == [s EXCEPT !.streamingRef = FALSE]
        s2 == Call(s1, "txChar.writeValue", << 254, 0, 66, 0, 0 >>)
    IN  IF ~bleOk(s, o.write) THEN addLog(s2, "error", "BLE stop error")
        ELSE
          LET s3 == IF s2.bleHandlerRef = NoHandler THEN s2
                    ELSE [s2 EXCEPT !.rxListeners = removeListener(@, s2.bleHandlerRef),
                                    !.bleHandlerRef = NoHandler]
              s4 == Call(s3, "rxChar.stopNotifications", << >>)
          IN  IF ~bleOk(s, o.notify) THEN addLog(s4, "error", "BLE stop error")
              ELSE
                LET s5 == addLog([s4 EXCEPT !.isRunning = FALSE], "info",
                                 "BLE streaming stopped")
                IN  saveCSVIfEnabled(c, s5, o)

setBLEGain(c, s, newGain, o) ==
  IF ~s.bleDeviceRef.held THEN s
  ELSE
    LET s1 == Call(s, "txChar.writeValue", << 254, 0, 71, BitAnd(newGain, 255), 0 >>)
    IN  IF ~bleOk(s, o.write) THEN addLog(s1, "error", "BLE gain error")
        ELSE addLog(s1, "info", "BLE gain set")

(* --------------------------- unified controls -------------------------- *)

handleConnect(c, s, o) ==
  IF c.mode = "serial" THEN connectSerial(c, s, o) ELSE connectBLE(c, s, o)

\* handleStart that starts a session on top of the CSV buffer of the last one
handleStartKeepsCsv(c, s, o) ==
  LET s1 == addLog(s, "command", "START")
      s2 == [s1 EXCEPT !.liveData = << >>]
      s3 == IF c.connStatus # "connected" THEN handleConnect(c, s2, o) ELSE s2
  IN  IF c.connStatus = "connected"
      THEN IF c.mode = "serial" THEN startSerialStreaming(c, s3, o)
           ELSE startBLEStreaming(c, s3, o)
      ELSE addLog(s3, "error", "Device not connected. Connection may have failed.")

\* handleStart that delegates to the adapter whatever the connection status
handleStartAlwaysDelegates(c, s, o) ==
  LET s1 == addLog(s, "command", "START")
      s2 == [s1 EXCEPT !.liveData = << >>, !.csvDataRef = << >>]
      s3 == IF c.connStatus # "connected" THEN handleConnect(c, s2, o) ELSE s2
  IN  IF c.mode = "serial" THEN startSerialStreaming(c, s3, o)
      ELSE startBLEStreaming(c, s3, o)

handleStart(c, s, o) ==
  LET s1 == addLog(s, "command", "START")
      s2 == [s1 EXCEPT !.liveData = << >>, !.csvDataRef = << >>]
      s3 == IF c.connStatus # "connected" THEN handleConnect(c, s2, o) ELSE s2
  IN  IF c.connStatus = "connected"
      THEN IF c.mode = "serial" THEN startSerialStreaming(c, s3, o)
           ELSE startBLEStreaming(c, s3, o)
      ELSE addLog(s3, "error", "Device not connected. Connection may have failed.")

handleStop(c, s, o) ==
  LET s1 == addLog(s, "command", "STOP")
  IN  IF c.mode = "serial" THEN stopSerialStreaming(c, s1, o)
      ELSE stopBLEStreaming(c, s1, o)

\* Number(gainValue): NaN or a value, kept in tenths
NumberOf(str) ==
  LET num(v) == [nan |-> FALSE, tenths |-> v]
  IN  CASE str = "0" -> num(0) [] str = "15" -> num(150) [] str = "7" -> num(70)
        [] str = "-1" -> num(-10) [] str = "16" -> num(160) [] str = "3.5" -> num(35)
        [] str = "" -> num(0) [] str = " " -> num(0)
        [] str = "abc" -> [nan |-> TRUE, tenths |-> 0]

\* gainRejected without the upper limit
gainRejectedNoUpperLimit(str) ==
  LET gain == NumberOf(str)
  IN  \/ str \in { "", " " }
      \/ gain.nan
      \/ gain.tenths % 10 # 0
      \/ gain.tenths < 0

gainRejected(str) ==
  LET gain == NumberOf(str)
  IN  \/ str \in { "", " " }       \* gainValue.trim() === ''
      \/ gain.nan                  \* Number.isNaN(gain)
      \/ gain.tenths % 10 # 0      \* !Number.isInteger(gain)
      \/ gain.tenths < 0
      \/ gain.tenths > 150

handleSendGain(c, s, gainValue, o) ==
  IF gainRejected(gainValue)
  THEN addLog(s, "error", "Gain must be an integer between 0 and 15")
  ELSE
    LET gain == NumberOf(gainValue).tenths \div 10
        s1 == addLog(s, "command", "SET_GAIN")
        s2 == IF c.mode = "serial" THEN setSerialGain(c, s1, gain, o)
              ELSE setBLEGain(c, s1, gain, o)
    IN  addLog(s2, "response", "Gain set")

\* lines 785-799
switchModeCloseSerial(s, o) ==
  LET s1 == [s EXCEPT !.streamingRef = FALSE]
      hasReader == s1.serialReaderRef # NULL
      s2 == IF hasReader THEN Call(s1, "reader.cancel", << >>) ELSE s1
  IN  IF hasReader /\ ~o.tdCancel THEN readLoopDone(s2)
      ELSE
        LET s3 == IF hasReader THEN [readLoopDone(s2) EXCEPT !.serialReaderRef = NULL]
                  ELSE s2
            s4 == Call(s3, "port.close", << >>)
        IN  IF ~o.close THEN s4
            ELSE addLog([s4 EXCEPT !.serialPortRef = NULL], "info", "Serial port disconnected")

\* lines 800-816
switchModeCloseBLE(s, o) ==
  LET dev == s.bleDeviceRef
      s1 == IF s.bleHandlerRef = NoHandler THEN s
            ELSE [s EXCEPT !.rxListeners = removeListener(@, s.bleHandlerRef),
                           !.bleHandlerRef = NoHandler]
      s2 == Call(s1, "rxChar.stopNotifications", << >>)
  IN  IF ~bleOk(s, o.tdNotify) THEN s2
      ELSE
        LET s3 == IF dev.server /\ dev.linkUp THEN Call(s2, "server.disconnect", << >>) ELSE s2
            s4 == IF dev.linkUp THEN addStale(s3) ELSE s3
        IN  addLog([s4 EXCEPT !.bleDeviceRef = NoDevice, !.rxListeners = << >>],
                   "info", "BLE device disconnected")

\* handleSwitchMode that returns when the teardown could not release the handle
handleSwitchModeGivesUp(c, s, next, o) ==
  IF next = c.mode THEN s
  ELSE
    LET s1 == IF c.isRunning THEN handleStop(c, s, o) ELSE s
        s2 == IF c.mode = "serial" /\ s1.serialPortRef # NULL THEN switchModeCloseSerial(s1, o)
              ELSE IF c.mode = "bluetooth" /\ s1.bleDeviceRef.held
              THEN switchModeCloseBLE(s1, o)
              ELSE s1
        s3 == [s2 EXCEPT !.connStatus = "disconnected", !.liveData = << >>, !.mode = next]
    IN  IF s2.serialPortRef # NULL \/ s2.bleDeviceRef.held THEN s2
        ELSE addLog(s3, "info", "Mode switched")

handleSwitchMode(c, s, next, o) ==
  IF next = c.mode THEN s
  ELSE
    LET s1 == IF c.isRunning THEN handleStop(c, s, o) ELSE s
        s2 == IF c.mode = "serial" /\ s1.serialPortRef # NULL THEN switchModeCloseSerial(s1, o)
              ELSE IF c.mode = "bluetooth" /\ s1.bleDeviceRef.held
              THEN switchModeCloseBLE(s1, o)
              ELSE s1
        s3 == [s2 EXCEPT !.connStatus = "disconnected", !.liveData = << >>, !.mode = next]
    IN  addLog(s3, "info", "Mode switched")

\* lines 645-669
handleSelectFolder(c, s, outcome) ==
  CASE outcome = "picked" ->
         addLog([s EXCEPT !.folderHandle = TRUE], "info", "Folder selected")
    [] outcome = "AbortError" -> addLog(s, "info", "Folder selection cancelled")
    [] outcome = "unsupported" ->
         addLog(s, "error", "Your browser does not support folder selection.")
    [] OTHER -> addLog(s, "error", "Folder selection failed")

(* ------------------------------ outcomes ------------------------------- *)

\* what each call on the platform does in one run of a handler
AllOk ==
  [ cancel |-> TRUE, close |-> TRUE, request |-> "ok", open |-> TRUE, getReader |-> TRUE,
    write |-> TRUE, notify |-> TRUE, file |-> "ok", gattFails |-> 0, live1 |-> TRUE,
    discover |-> TRUE, live2 |-> TRUE, tdCancel |-> TRUE, tdNotify |-> TRUE ]

Either(relevant) == IF relevant THEN BOOLEAN ELSE { TRUE }

ConnectOutcomes ==
  IF mode = "serial"
  THEN { [AllOk EXCEPT !.cancel = a, !.close = b, !.request = r] :
           a \in Either(serialReaderRef # NULL), b \in Either(serialPortRef # NULL),
           r \in { "ok", "NotFoundError", "SecurityError" } }
       \cup { [AllOk EXCEPT !.cancel = a, !.close = b, !.open = FALSE] :
                 a \in Either(serialReaderRef # NULL), b \in Either(serialPortRef # NULL) }
  ELSE { [AllOk EXCEPT !.request = r] : r \in { "NotFoundError", "SecurityError" } }
       \cup { [AllOk EXCEPT !.gattFails = maxConnectAttempts] }
       \cup { [AllOk EXCEPT !.gattFails = g, !.live1 = FALSE] : g \in 0..(maxConnectAttempts - 1) }
       \cup { [AllOk EXCEPT !.gattFails = g, !.discover = FALSE] : g \in 0..(maxConnectAttempts - 1) }
       \cup { [AllOk EXCEPT !.gattFails = g, !.live2 = l2] :
                 g \in 0..(maxConnectAttempts - 1), l2 \in BOOLEAN }

FlushOutcomes ==
  IF csvEnabled /\ folderHandle /\ Len(csvDataRef) > 0 THEN FileOutcomes ELSE { "ok" }

StartOutcomes ==
  IF connStatus # "connected" THEN ConnectOutcomes
  ELSE IF mode = "serial"
  THEN { [AllOk EXCEPT !.write = FALSE] }
       \cup { [AllOk EXCEPT !.getReader = g] : g \in BOOLEAN }
  ELSE { [AllOk EXCEPT !.notify = FALSE] }
       \cup { [AllOk EXCEPT !.write = w] : w \in BOOLEAN }

\* the outcomes of a stop: the first call that fails, or the outcome of the flush
StopOutcomes ==
  (IF mode = "serial"
   THEN { [AllOk EXCEPT !.cancel = FALSE] : x \in Either(serialReaderRef # NULL) \ { TRUE } }
        \cup { [AllOk EXCEPT !.write = FALSE] }
   ELSE { [AllOk EXCEPT !.write = FALSE], [AllOk EXCEPT !.notify = FALSE] })
  \cup { [AllOk EXCEPT !.file = f] : f \in FlushOutcomes }

\* the outcomes of the teardown in handleSwitchMode
TeardownOutcomes ==
  IF mode = "serial"
  THEN { [AllOk EXCEPT !.tdCancel = FALSE], [AllOk EXCEPT !.close = FALSE], AllOk }
  ELSE { [AllOk EXCEPT !.tdNotify = FALSE], AllOk }

SwitchOutcomes ==
  { [o EXCEPT !.tdCancel = td.tdCancel, !.close = td.close, !.tdNotify = td.tdNotify] :
      o \in (IF isRunning THEN StopOutcomes ELSE { AllOk }), td \in TeardownOutcomes }

GainOutcomes == { [AllOk EXCEPT !.write = w] : w \in BOOLEAN }

(* ------------------------------- actions ------------------------------- *)

\* the device keeps sending while the live buffer is near one end of its range
\* and the CSV buffer is not ahead of it
InboundAllowed ==
  /\ Len(csvDataRef) <= Len(liveData)
  /\ \/ Len(liveData) < 36 * MaxFrames
     \/ Len(liveData) > MAX_PLOT - 36 * (MaxFrames + 1)

Supported(m) == IF m = "serial" THEN supportsWebSerial ELSE supportsWebBluetooth

InitState ==
  [ mode |-> "serial", isRunning |-> FALSE, liveData |-> << >>,
    connStatus |-> "disconnected", csvEnabled |-> FALSE, folderHandle |-> FALSE,
    serialPortRef |-> NULL, serialReaderRef |-> NULL, bleDeviceRef |-> NoDevice,
    streamingRef |-> FALSE, bleHandlerRef |-> NoHandler, csvDataRef |-> << >>,
    supportsWebSerial |-> TRUE, supportsWebBluetooth |-> TRUE,
    readLoop |-> NoLoop, rxListeners |-> << >>, staleLinks |-> 0,
    logs |-> << >>, calls |-> << >>, fileWritten |-> << >>, flushes |-> 0,
    uncaught |-> FALSE ]

Init ==
  /\ mode = InitState.mode
  /\ isRunning = InitState.isRunning
  /\ liveData = InitState.liveData
  /\ connStatus = InitState.connStatus
  /\ csvEnabled = InitState.csvEnabled
  /\ folderHandle = InitState.folderHandle
  /\ serialPortRef = NULL
  /\ serialReaderRef = NULL
  /\ bleDeviceRef = NoDevice
  /\ streamingRef = FALSE
  /\ bleHandlerRef = NoHandler
  /\ csvDataRef = << >>
  /\ supportsWebSerial \in BOOLEAN
  /\ supportsWebBluetooth = TRUE
  /\ readLoop = NoLoop
  /\ rxListeners = << >>
  /\ staleLinks = 0
  /\ argHexString = << >>
  /\ argBytes = << >>
  /\ retSamples = << >>
  /\ inbound = NoStream

\* the Connect button (disabled when the API of the mode is missing)
Connect ==
  /\ Supported(mode)
  /\ \E o \in ConnectOutcomes : Commit(handleConnect(Cur, Cur, o))

\* the Start button (disabled while running)
Start ==
  /\ ~isRunning
  /\ mode = "bluetooth" => Len(rxListeners) < MaxListeners
  /\ \E o \in StartOutcomes : Commit(handleStart(Cur, Cur, o))

\* the Stop button (disabled unless running)
Stop ==
  /\ isRunning
  /\ \E o \in StopOutcomes : Commit(handleStop(Cur, Cur, o))

\* the Send button (disabled unless connected), pressed with the text entered in
\* the gain input: gainValue is the handler's input and is not kept between steps
SendGain ==
  /\ connStatus = "connected"
  /\ \E gainValue \in GainInputs, o \in GainOutcomes :
       Commit(handleSendGain(Cur, Cur, gainValue, o))

\* the mode radio buttons (each disabled when its API is missing)
SwitchMode ==
  /\ \E next \in Modes :
       /\ Supported(next)
       /\ \E o \in SwitchOutcomes :
            Commit(handleSwitchMode(Cur, Cur, next, o))

\* the CSV checkbox
ToggleCsv ==
  /\ Commit([Cur EXCEPT !.csvEnabled = ~csvEnabled])

\* the folder button (disabled unless CSV is enabled)
SelectFolder ==
  /\ csvEnabled
  /\ \E outcome \in { "picked", "AbortError", "unsupported", "SecurityError" } :
       Commit(handleSelectFolder(Cur, Cur, outcome))

\* the pending reader.read() of the read loop resolves with a chunk
SerialData ==
  /\ readLoop.active
  /\ InboundAllowed
  /\ \E name \in SerialChunks :
       Commit(readLoopChunk(Cur, SerialChunk(name)))

\* the readable stream reports end-of-data
SerialEnd ==
  /\ readLoop.active
  /\ Commit(readLoopEnd(Cur))

\* the pending reader.read() rejects
SerialError ==
  /\ readLoop.active
  /\ Commit(readLoopError(Cur))

\* a notification of the RX characteristic of the held device
Notification ==
  /\ bleDeviceRef.held
  /\ bleDeviceRef.linkUp
  /\ rxListeners # << >>
  /\ InboundAllowed
  /\ \E name \in BLEPackets :
       Commit(dispatchNotification(Cur, 1, BLEPacket(name)))

\* 'gattserverdisconnected' of the device the adapter holds
DisconnectHeld ==
  /\ bleDeviceRef.held
  /\ bleDeviceRef.linkUp
  /\ Commit(disconnectHandler([Cur EXCEPT !.bleDeviceRef.linkUp = FALSE]))

\* 'gattserverdisconnected' of a device the adapter no longer holds
DisconnectStale ==
  /\ staleLinks > 0
  /\ Commit(disconnectHandler([Cur EXCEPT !.staleLinks = @ - 1]))

Next ==
  \/ Connect
  \/ Start
  \/ Stop
  \/ SendGain
  \/ SwitchMode
  \/ ToggleCsv
  \/ SelectFolder
  \/ SerialData
  \/ SerialEnd
  \/ SerialError
  \/ Notification
  \/ DisconnectHeld
  \/ DisconnectStale

Spec == Init /\ [][Next]_vars

(* ------------- connect pressed only while not connected ---------------- *)

\* the Connect button pressed while the status is not connected
ConnectWhenNotConnected ==
  /\ connStatus # "connected"
  /\ Connect

NextGuarded ==
  \/ ConnectWhenNotConnected
  \/ Start
  \/ Stop
  \/ SendGain
  \/ SwitchMode
  \/ ToggleCsv
  \/ SelectFolder
  \/ SerialData
  \/ SerialEnd
  \/ SerialError
  \/ Notification
  \/ DisconnectHeld
  \/ DisconnectStale

SpecGuarded == Init /\ [][NextGuarded]_vars

(* ------------------- a session with a nearly full buffer --------------- *)

\* frames received so far by the session that InitBuffer starts from
PrefillFrames == 54

\* the live buffer after k frames of FrameA (k * 36 <= MAX_PLOT, so nothing was
\* trimmed yet): what k applications of mergeSamples leave
Prefill(k, seqNo) ==
  LET samples == decodeBytesToSamples(FrameA)
  IN  [ i \in 1..(36 * k) |->
          [x |-> i - 1, raw |-> samples[((i - 1) % 36) + 1],
           filtered |-> samples[((i - 1) % 36) + 1], seq |-> seqNo] ]

\* the state after connect, start and PrefillFrames frames of FrameA, CSV off
InitBuffer ==
  \E m \in Modes :
    /\ mode = m
    /\ isRunning = TRUE
    /\ liveData = Prefill(PrefillFrames, IF m = "serial" THEN 10 ELSE 3)
    /\ connStatus = "connected"
    /\ csvEnabled = FALSE
    /\ folderHandle = FALSE
    /\ serialPortRef = (IF m = "serial" THEN "port" ELSE NULL)
    /\ serialReaderRef = (IF m = "serial" THEN "reader" ELSE NULL)
    /\ bleDeviceRef = (IF m = "serial" THEN NoDevice
                       ELSE [held |-> TRUE, server |-> TRUE, linkUp |-> TRUE])
    /\ streamingRef = TRUE
    /\ bleHandlerRef = (IF m = "serial" THEN NoHandler ELSE 1)
    /\ csvDataRef = << >>
    /\ supportsWebSerial = TRUE
    /\ supportsWebBluetooth = TRUE
    /\ readLoop = (IF m = "serial"
                   THEN [active |-> TRUE, csvEnabled |-> FALSE, buffer |-> << >>]
                   ELSE NoLoop)
    /\ rxListeners = (IF m = "serial" THEN << >> ELSE << [id |-> 1, csvEnabled |-> FALSE] >>)
    /\ staleLinks = 0
    /\ argHexString = << >>
    /\ argBytes = << >>
    /\ retSamples = << >>
    /\ inbound = NoStream

SpecBuffer == InitBuffer /\ [][Next]_vars

(* ------------------------- calls of the decoders ----------------------- *)

\* byte values the frames are built from
TripletBytes == { 0, 1, 15, 16, 18, 52, 128, 240, 255 }

\* a frame that repeats one triplet
UniformFrame(b0, b1, b2) ==
  [ i \in 1..54 |-> CASE i % 3 = 1 -> b0 [] i % 3 = 2 -> b1 [] OTHER -> b2 ]

\* a frame whose bytes differ from position to position
RampFrame(a, c) == [ i \in 1..54 |-> (a * (i - 1) + c) % 256 ]

DecodeFrames ==
  { UniformFrame(b0, b1, b2) : b0 \in TripletBytes, b1 \in TripletBytes, b2 \in TripletBytes }
  \cup { RampFrame(a, c) : a \in { 1, 5, 37 }, c \in { 0, 100, 255 } }
  \cup { FrameA, FrameB }

\* sample values the encoder's inputs are built from
SampleValues == { -2048, -1996, -1774, -1, 0, 1, 255, 256, 2047 }

SampleSeqs ==
  { [ k \in 1..36 |-> IF k % 2 = 1 THEN p ELSE q ] : p \in SampleValues, q \in SampleValues }
  \cup { [ k \in 1..36 |-> ((117 * k) % 4096) - 2048 ] }

\* the device's nibble packing of 36 samples into 54 bytes: the low 8 bits of
\* sample + 2048 in b0 / b1, the two high nibbles in b2 (first sample's in the
\* high nibble)
Pack(orig) ==
  [ i \in 1..54 |->
      LET k == (i - 1) \div 3
          u1 == orig[2 * k + 1] + 2048
          u2 == orig[2 * k + 2] + 2048
      IN  CASE i % 3 = 1 -> u1 % 256
            [] i % 3 = 2 -> u2 % 256
            [] OTHER -> 16 * (u1 \div 256) + (u2 \div 256) ]

\* byte arrays that are not 54 bytes long
OtherLengths == { 0, 1, 2, 3, 53, 55, 56, 108 }
OddSizedArrays == { [ i \in 1..n |-> (7 * i) % 256 ] : n \in OtherLengths }

ByteInputs == DecodeFrames \cup { Pack(orig) : orig \in SampleSeqs } \cup OddSizedArrays

LowerCase(str) ==
  [ i \in 1..Len(str) |->
      CASE str[i] = "A" -> "a" [] str[i] = "B" -> "b" [] str[i] = "C" -> "c"
        [] str[i] = "D" -> "d" [] str[i] = "E" -> "e" [] str[i] = "F" -> "f"
        [] OTHER -> str[i] ]

\* strings of 108 hex characters
HexFrames ==
  { toHexText(f) : f \in { FrameA, FrameB, RampFrame(5, 100), UniformFrame(255, 0, 240) } }
  \cup { LowerCase(toHexText(FrameA)) }

\* strings that are not 108 hex characters
OddHexStrings ==
  { SubSeq(toHexText(FrameA), 1, n) : n \in { 1, 2, 106, 107 } }
  \cup { toHexText(FrameA) \o << "0" >>, toHexText(FrameA) \o << "0", "0" >>,
         << "G" >> \o SubSeq(toHexText(FrameA), 2, 108),
         SubSeq(toHexText(FrameA), 1, 107) \o << " " >> }

HexInputs == HexFrames \cup OddHexStrings

appVars == << mode, isRunning, liveData, connStatus, csvEnabled, folderHandle,
              serialPortRef, serialReaderRef, bleDeviceRef, streamingRef, bleHandlerRef,
              csvDataRef, supportsWebSerial, supportsWebBluetooth, readLoop, rxListeners,
              staleLinks >>

\* a decoder is about to be called with an argument
InitDecode ==
  /\ mode = InitState.mode
  /\ isRunning = InitState.isRunning
  /\ liveData = InitState.liveData
  /\ connStatus = InitState.connStatus
  /\ csvEnabled = InitState.csvEnabled
  /\ folderHandle = InitState.folderHandle
  /\ serialPortRef = NULL
  /\ serialReaderRef = NULL
  /\ bleDeviceRef = NoDevice
  /\ streamingRef = FALSE
  /\ bleHandlerRef = NoHandler
  /\ csvDataRef = << >>
  /\ supportsWebSerial = TRUE
  /\ supportsWebBluetooth = TRUE
  /\ readLoop = NoLoop
  /\ rxListeners = << >>
  /\ staleLinks = 0
  /\ retSamples = << >>
  /\ inbound = NoStream
  /\ \/ argHexString = << >> /\ argBytes \in ByteInputs
     \/ argHexString \in HexInputs /\ argBytes = << >>

\* decodeBytesToSamples(argBytes) returns
DecodeBytes ==
  /\ argHexString = << >>
  /\ retSamples = << >>
  /\ retSamples' = decodeBytesToSamples(argBytes)
  /\ UNCHANGED << appVars, argHexString, argBytes, inbound >>

\* decodeHexToSamples(argHexString) returns, having built its byte array
DecodeHex ==
  /\ argHexString # << >>
  /\ retSamples = << >>
  /\ argBytes' = hexToBytes(argHexString)
  /\ retSamples' = decodeHexToSamples(argHexString)
  /\ UNCHANGED << appVars, argHexString, inbound >>

NextDecode ==
  \/ DecodeBytes
  \/ DecodeHex

SpecDecode == InitDecode /\ [][NextDecode]_vars

(* ---------------------- a byte stream read in chunks -------------------- *)

\* byte streams of newline-terminated lines: two frames (CRLF, then LF with blanks
\* around the colon), a short line before a frame, blank lines around a frame
Streams == { "AB", "ShortA", "BlankA" }

Stream(name) ==
  CASE name = "AB" -> ChunkA \o LineB \o << "\n" >>
    [] name = "ShortA" -> ChunkShort \o ChunkA
    [] name = "BlankA" -> << "\r", "\n", " " >> \o LineA \o << " ", "\n", "\n" >>

\* the state after connect and start in serial mode, CSV collection enabled or
\* not: the read loop waits in its first reader.read() with an empty buffer
FramingStart(csv) ==
  [ InitState EXCEPT !.isRunning = TRUE, !.connStatus = "connected", !.csvEnabled = csv,
                     !.serialPortRef = "port", !.serialReaderRef = "reader",
                     !.streamingRef = TRUE,
                     !.readLoop = [active |-> TRUE, csvEnabled |-> csv, buffer |-> << >>] ]

InitFraming ==
  \E csv \in { TRUE }, name \in Streams :
    /\ mode = FramingStart(csv).mode
    /\ isRunning = FramingStart(csv).isRunning
    /\ liveData = FramingStart(csv).liveData
    /\ connStatus = FramingStart(csv).connStatus
    /\ csvEnabled = FramingStart(csv).csvEnabled
    /\ folderHandle = FramingStart(csv).folderHandle
    /\ serialPortRef = FramingStart(csv).serialPortRef
    /\ serialReaderRef = FramingStart(csv).serialReaderRef
    /\ bleDeviceRef = FramingStart(csv).bleDeviceRef
    /\ streamingRef = FramingStart(csv).streamingRef
    /\ bleHandlerRef = FramingStart(csv).bleHandlerRef
    /\ csvDataRef = FramingStart(csv).csvDataRef
    /\ supportsWebSerial = FramingStart(csv).supportsWebSerial
    /\ supportsWebBluetooth = FramingStart(csv).supportsWebBluetooth
    /\ readLoop = FramingStart(csv).readLoop
    /\ rxListeners = FramingStart(csv).rxListeners
    /\ staleLinks = FramingStart(csv).staleLinks
    /\ argHexString = << >>
    /\ argBytes = << >>
    /\ retSamples = << >>
    /\ inbound = [name |-> name, pos |-> 0]

\* the part of the stream not read yet
Unread == SubSeq(Stream(inbound.name), inbound.pos + 1, Len(Stream(inbound.name)))

\* reader.read() resolves with the next n characters of the stream
StreamRead ==
  /\ inbound.name \in Streams
  /\ readLoop.active
  /\ \E n \in 1..Len(Unread) :
       /\ CommitApp(readLoopChunk(Cur, SubSeq(Unread, 1, n)))
       /\ inbound' = [inbound EXCEPT !.pos = @ + n]
  /\ UNCHANGED << argHexString, argBytes, retSamples >>

NextFraming == StreamRead

SpecFraming == InitFraming /\ [][NextFraming]_vars

TypeOK ==
  /\ mode \in Modes
  /\ connStatus \in ConnStatuses
  /\ isRunning \in BOOLEAN
  /\ streamingRef \in BOOLEAN
  /\ staleLinks \in 0..MaxStale

(* ------------------------------ properties ----------------------------- *)

HasCall(r, op) == \E i \in 1..Len(r.calls) : r.calls[i].op = op

HasLog(r, type, message) == \E i \in 1..Len(r.logs) : r.logs[i] = << type, message >>

IsSerialWrite(call, text) == call.op = "serial.write" /\ call.data = text

IsBLEWrite(call, bytes) == call.op = "txChar.writeValue" /\ call.data = bytes

IsStartCommand(call) ==
  \/ IsSerialWrite(call, << "S", "0", "\r", "\n" >>)
  \/ IsBLEWrite(call, << 254, 0, 83, 0, 0 >>)

IsStopCommand(call) ==
  \/ IsSerialWrite(call, << "B", "0", "\r", "\n" >>)
  \/ IsBLEWrite(call, << 254, 0, 66, 0, 0 >>)

StartCommandWritten(r) == \E i \in 1..Len(r.calls) : IsStartCommand(r.calls[i])

HandleHeld == IF mode = "serial" THEN serialPortRef # NULL ELSE bleDeviceRef.held

\* C1: in every reachable state, run status streaming implies connection
\* status connected.
C1_StreamingImpliesConnected == isRunning => connStatus = "connected"

\* C2: a start() invoked while not connected whose implicit connect succeeds
\* goes on to write the transport's start command, and run status becomes
\* streaming (no call of the start path fails in the outcomes considered).
C2_StartAfterImplicitConnect ==
  (~isRunning /\ connStatus # "connected") =>
    \A o \in StartOutcomes :
      LET r == handleStart(Cur, Cur, o)
      IN  r.connStatus = "connected" => (r.isRunning /\ StartCommandWritten(r))

\* C3: a start() invoked while not connected whose implicit connect does not
\* establish a connection logs the 'Device not connected' error, writes no start
\* command, starts no read loop and no notification subscription, and leaves run
\* status idle.
C3_StartWithoutConnection ==
  (~isRunning /\ connStatus # "connected") =>
    \A o \in StartOutcomes :
      LET r == handleStart(Cur, Cur, o)
      IN  r.connStatus # "connected" =>
            /\ HasLog(r, "error", "Device not connected. Connection may have failed.")
            /\ ~StartCommandWritten(r)
            /\ ~HasCall(r, "readable.getReader")
            /\ ~HasCall(r, "rxChar.startNotifications")
            /\ r.readLoop.active => readLoop.active
            /\ Len(r.rxListeners) <= Len(rxListeners)
            /\ ~r.isRunning
            /\ ~r.streamingRef

\* a start in Bluetooth mode, not connected, whose three GATT connect attempts fail
C3_Witness ==
  /\ ~isRunning /\ connStatus # "connected" /\ mode = "bluetooth"
  /\ LET r == handleStart(Cur, Cur, [AllOk EXCEPT !.gattFails = maxConnectAttempts])
     IN  /\ r.connStatus = "error"
         /\ HasLog(r, "error", "Device not connected. Connection may have failed.")

\* C4: a 'gattserverdisconnected' event of the held device that arrives while
\* streaming leaves connection status disconnected, run status idle and the
\* streaming flag cleared.
C4_DisconnectWhileStreaming ==
  [][(DisconnectHeld /\ isRunning) =>
       (connStatus' = "disconnected" /\ ~isRunning' /\ ~streamingRef')]_vars

\* a streaming Bluetooth session whose link is up, and what the event makes of it
C4_Witness ==
  /\ mode = "bluetooth" /\ isRunning /\ streamingRef /\ connStatus = "connected"
  /\ bleDeviceRef.held /\ bleDeviceRef.linkUp
  /\ LET r == disconnectHandler([Cur EXCEPT !.bleDeviceRef.linkUp = FALSE])
     IN  r.connStatus = "disconnected" /\ ~r.isRunning /\ ~r.streamingRef

\* C5: the live buffer never holds more than 2000 elements, and the element at
\* position i (0-based) has x = i.
C5_LiveBufferBounded ==
  /\ Len(liveData) <= MAX_PLOT
  /\ \A i \in 1..Len(liveData) : liveData[i].x = i - 1

\* a full buffer whose oldest samples were trimmed: it starts in the middle of a frame
C5_Witness ==
  /\ Len(liveData) = MAX_PLOT
  /\ liveData[1].raw # decodeBytesToSamples(FrameA)[1]
  /\ liveData[MAX_PLOT].raw = decodeBytesToSamples(FrameA)[36]

\* the inputs of the gain box that are not an integer in 0..15
InvalidGainInputs == { "-1", "16", "3.5", "", " ", "abc" }

\* the gain command the claim expects for an accepted input
ExpectedGainCommand(g) ==
  IF mode = "serial"
  THEN [op |-> "serial.write",
        data |-> << "G", (CASE g = "0" -> "0" [] g = "7" -> "7" [] g = "15" -> "F"),
                    "\r", "\n" >>]
  ELSE [op |-> "txChar.writeValue",
        data |-> << 254, 0, 71, (CASE g = "0" -> 0 [] g = "7" -> 7 [] g = "15" -> 15), 0 >>]

\* C6: setGain makes a transport call only for an integer in [0,15]; any other
\* input changes nothing but for one error log entry; an accepted input (0 and
\* 15 among them) is forwarded, as the gain command of the mode, to the adapter,
\* which writes it when it holds a handle.
C6_GainValidation ==
  connStatus = "connected" =>
    \A g \in GainInputs, o \in GainOutcomes :
      LET r == handleSendGain(Cur, Cur, g, o)
      IN  IF g \in InvalidGainInputs
          THEN r = [Cur EXCEPT !.logs =
                      << << "error", "Gain must be an integer between 0 and 15" >> >>]
          ELSE /\ HandleHeld => r.calls = << ExpectedGainCommand(g) >>
               /\ ~HandleHeld => r.calls = << >>

\* connected with a port held: 16 is rejected, 15 is written as GF
C6_Witness ==
  /\ connStatus = "connected" /\ mode = "serial" /\ serialPortRef # NULL
  /\ handleSendGain(Cur, Cur, "16", AllOk).calls = << >>
  /\ handleSendGain(Cur, Cur, "15", AllOk).calls
       = << [op |-> "serial.write", data |-> << "G", "F", "\r", "\n" >>] >>

\* the calls that tear down the connection of the old adapter
TeardownCalls == { "port.close", "server.disconnect" }

\* C7: switchMode to another mode while streaming performs the stop (stop
\* command and CSV flush attempt) before the old adapter's connection is torn
\* down.
C7_StopBeforeTeardown ==
  isRunning =>
    \A next \in Modes \ { mode } :
      Supported(next) =>
        \A o \in SwitchOutcomes :
          LET r == handleSwitchMode(Cur, Cur, next, o)
          IN  /\ r.flushes >= 1
              /\ \A j \in 1..Len(r.calls) :
                   r.calls[j].op \in TeardownCalls =>
                     \E i \in 1..(j - 1) : IsStopCommand(r.calls[i])

\* C8: after any switchMode to another mode, whatever failed on the way, the
\* live buffer is empty, connection status is disconnected and mode is next.
C8_SwitchModeResets ==
  \A next \in Modes \ { mode } :
    Supported(next) =>
      \A o \in SwitchOutcomes :
        LET r == handleSwitchMode(Cur, Cur, next, o)
        IN  r.liveData = << >> /\ r.connStatus = "disconnected" /\ r.mode = next

\* a switch during a session with samples in the buffer, whose close fails
C8_Witness ==
  /\ mode = "serial" /\ isRunning /\ liveData # << >> /\ serialPortRef # NULL
  /\ LET r == handleSwitchMode(Cur, Cur, "bluetooth", [AllOk EXCEPT !.close = FALSE])
     IN  /\ r.serialPortRef # NULL
         /\ r.liveData = << >> /\ r.connStatus = "disconnected" /\ r.mode = "bluetooth"

\* the frames among the inbound data
ValidChunks == { "A" }
ValidPackets == { "A" }

\* C9: decoded samples are appended to the CSV buffer only while CSV collection
\* is enabled and the link is streaming, and a frame received while both hold is
\* collected.
C9_CsvOnlyWhileEnabledAndStreaming ==
  /\ (readLoop.active /\ InboundAllowed) =>
       \A name \in ValidChunks :
         LET r == readLoopChunk(Cur, SerialChunk(name))
         IN  IF csvEnabled /\ streamingRef
             THEN r.csvDataRef = csvDataRef \o decodeBytesToSamples(FrameA)
             ELSE r.csvDataRef = csvDataRef
  /\ (bleDeviceRef.held /\ bleDeviceRef.linkUp /\ rxListeners # << >> /\ InboundAllowed) =>
       \A name \in ValidPackets :
         LET r == dispatchNotification(Cur, 1, BLEPacket(name))
         IN  IF csvEnabled /\ streamingRef
             THEN r.csvDataRef = csvDataRef \o decodeBytesToSamples(FrameA)
             ELSE r.csvDataRef = csvDataRef

\* C10: flush writes nothing to the file system and leaves the CSV buffer empty
\* whenever CSV is disabled, no directory handle is held, or the buffer is empty.
C10_FlushWithoutWrite ==
  (~csvEnabled \/ ~folderHandle \/ csvDataRef = << >>) =>
    \A f \in FileOutcomes :
      LET r == saveCSVIfEnabled(Cur, Cur, [AllOk EXCEPT !.file = f])
      IN  /\ r.calls = << >>
          /\ r.fileWritten = << >>
          /\ r.csvDataRef = << >>
          /\ r.flushes = 1

\* a running session with CSV enabled and a folder chosen, but nothing collected
C10_Witness ==
  /\ isRunning /\ csvEnabled /\ folderHandle /\ csvDataRef = << >>
  /\ handleStop(Cur, Cur, AllOk).flushes = 1
  /\ handleStop(Cur, Cur, AllOk).fileWritten = << >>

\* what a finished step leaves for the next one
Settled(r) ==
  [r EXCEPT !.logs = << >>, !.calls = << >>, !.fileWritten = << >>, !.flushes = 0,
            !.uncaught = FALSE]

HasLogOfType(r, type) == \E i \in 1..Len(r.logs) : r.logs[i][1] = type

\* C11: after flush returns the CSV buffer is empty whatever the outcome (file
\* written, or getFileHandle, createWritable, write or close failed); a failed
\* flush is reported by an error log entry, and a later flush writes none of its
\* data.
C11_FlushClearsBuffer ==
  \A f \in FileOutcomes :
    LET r == saveCSVIfEnabled(Cur, Cur, [AllOk EXCEPT !.file = f])
        later == saveCSVIfEnabled(Settled(r), Settled(r), AllOk)
    IN  /\ r.csvDataRef = << >>
        /\ (csvEnabled /\ folderHandle /\ csvDataRef # << >>) =>
             /\ f = "ok" => /\ r.fileWritten = << csvContent(csvDataRef) >>
                            /\ ~HasLogOfType(r, "error")
             /\ f # "ok" => HasLog(r, "error", "Failed to save CSV")
        /\ later.calls = << >>
        /\ later.fileWritten = << >>

\* a stop of a session with samples collected whose writable.write fails
C11_Witness ==
  /\ isRunning /\ csvEnabled /\ folderHandle /\ csvDataRef # << >>
  /\ LET r == handleStop(Cur, Cur, [AllOk EXCEPT !.file = "file.write"])
     IN  /\ r.flushes = 1
         /\ HasLog(r, "error", "Failed to save CSV")
         /\ r.csvDataRef = << >>

\* C12: dismissing the device chooser during connect() leaves connection status
\* unchanged and emits no error log entry, on serial and on Bluetooth.
C12_ChooserDismissed ==
  Supported(mode) =>
    \A o \in ConnectOutcomes :
      o.request = "NotFoundError" =>
        LET r == handleConnect(Cur, Cur, o)
        IN  r.connStatus = connStatus /\ ~HasLogOfType(r, "error")

\* C15: between control operations, run status is streaming exactly when the
\* adapter's streaming flag is set.
C15_FlagsConsistent == isRunning <=> streamingRef

\* C16: every start() leaves the live buffer and the CSV buffer without any
\* sample from before the invocation, whatever the outcome of the connect and of
\* the start command.
C16_StartResetsBuffers ==
  ~isRunning =>
    \A o \in StartOutcomes :
      LET r == handleStart(Cur, Cur, o)
      IN  r.liveData = << >> /\ r.csvDataRef = << >>

\* a start after a session that left samples in both buffers
C16_Witness ==
  /\ ~isRunning /\ liveData # << >> /\ csvDataRef # << >>
  /\ handleStart(Cur, Cur, AllOk).liveData = << >>
  /\ handleStart(Cur, Cur, AllOk).csvDataRef = << >>

HandleUsable ==
  IF mode = "serial" THEN serialPortRef # NULL
  ELSE bleDeviceRef.held /\ bleDeviceRef.server /\ bleDeviceRef.linkUp

Returned(r) == ~r.uncaught

\* the step left a log entry or changed connection status or run status
Reported(r) ==
  r.logs # << >> \/ r.connStatus # connStatus \/ r.isRunning # isRunning

\* whichever call fails, every control operation returns normally and leaves a
\* log entry or a status transition
ControlsCatchFailures ==
  /\ Supported(mode) =>
       \A o \in ConnectOutcomes :
         Returned(handleConnect(Cur, Cur, o)) /\ Reported(handleConnect(Cur, Cur, o))
  /\ ~isRunning =>
       \A o \in StartOutcomes :
         Returned(handleStart(Cur, Cur, o)) /\ Reported(handleStart(Cur, Cur, o))
  /\ isRunning =>
       \A o \in StopOutcomes :
         Returned(handleStop(Cur, Cur, o)) /\ Reported(handleStop(Cur, Cur, o))
  /\ connStatus = "connected" =>
       \A g \in GainInputs, o \in GainOutcomes :
         Returned(handleSendGain(Cur, Cur, g, o)) /\ Reported(handleSendGain(Cur, Cur, g, o))
  /\ \A next \in Modes \ { mode } :
       Supported(next) =>
         \A o \in SwitchOutcomes :
           /\ Returned(handleSwitchMode(Cur, Cur, next, o))
           /\ Reported(handleSwitchMode(Cur, Cur, next, o))

\* C14: whichever transport call fails, every control operation and
\* the read loop return normally, and the failure is turned into a log entry
\* and/or a status transition.
C14_FailuresCaughtAndReported ==
  /\ ControlsCatchFailures
  /\ readLoop.active =>
       Returned(readLoopError(Cur)) /\ Reported(readLoopError(Cur))

\* What holds of the failures: every control operation and the read loop return
\* normally; a control operation leaves a log entry and/or a status transition;
\* a read error is logged and ends streaming when the streaming flag is set, and
\* leaves neither log entry nor status change when the flag was cleared before it
\* arrived.
FailuresNeverEscape ==
  /\ ControlsCatchFailures
  /\ readLoop.active =>
       LET r == readLoopError(Cur)
       IN  /\ Returned(r)
           /\ ~r.readLoop.active
           /\ IF streamingRef
              THEN HasLog(r, "error", "Serial read error") /\ ~r.isRunning /\ ~r.streamingRef
              ELSE r.logs = << >> /\ r.connStatus = connStatus /\ r.isRunning = isRunning

IsFrame(b) == Len(b) = 54 /\ \A i \in 1..54 : b[i] \in 0..255

IsHex108(str) == Len(str) = 108 /\ \A i \in 1..108 : IsHexChar(str[i])

\* C17: for every 54-byte frame, decode returns exactly 36 integers, each in
\* [-2048, 2047].
C17_DecodeRange ==
  (retSamples # << >> /\ IsFrame(argBytes)) =>
    /\ Len(retSamples) = 36
    /\ \A i \in 1..36 : retSamples[i] \in -2048..2047

\* a decoded frame that yields both ends of the range
C17_Witness ==
  /\ IsFrame(argBytes) /\ Len(retSamples) = 36
  /\ \E i, j \in 1..36 : retSamples[i] = 2047 /\ retSamples[j] = -2048

\* C18: for every 54-byte frame and k in 0..17, with (b0, b1, b2) the bytes 3k,
\* 3k+1, 3k+2, the output at 2k is (high nibble of b2) * 256 + b0 - 2048 and at
\* 2k+1 is (low nibble of b2) * 256 + b1 - 2048; the triplet (0x34, 0x12, 0x01)
\* yields -1996 then -1774.
C18_DecodeTriplets ==
  (retSamples # << >> /\ IsFrame(argBytes)) =>
    /\ \A k \in 0..17 :
         LET b0 == argBytes[3 * k + 1]
             b1 == argBytes[3 * k + 2]
             b2 == argBytes[3 * k + 3]
         IN  /\ retSamples[2 * k + 1] = 256 * (b2 \div 16) + b0 - 2048
             /\ retSamples[2 * k + 2] = 256 * (b2 % 16) + b1 - 2048
    /\ \A k \in 0..17 :
         (argBytes[3 * k + 1] = 52 /\ argBytes[3 * k + 2] = 18 /\ argBytes[3 * k + 3] = 1) =>
           (retSamples[2 * k + 1] = -1996 /\ retSamples[2 * k + 2] = -1774)

\* the frame of (0x34, 0x12, 0x01) triplets, decoded
C18_Witness ==
  /\ argBytes = UniformFrame(52, 18, 1)
  /\ Len(retSamples) = 36
  /\ retSamples[1] = -1996 /\ retSamples[2] = -1774
  /\ retSamples[35] = -1996 /\ retSamples[36] = -1774

\* C19: decode returns no sample sequence, full or partial, for an input that
\* is not exactly 54 bytes, and the hex variant none for a string that is not
\* exactly 108 hex characters.
C19_DecodeRejects ==
  /\ (argHexString = << >> /\ Len(argBytes) # 54) => retSamples = << >>
  /\ (argHexString # << >> /\ ~IsHex108(argHexString)) => retSamples = << >>

\* C20: packing 36 samples in [-2048, 2047] with the inverse nibble-packing rule
\* and decoding returns the 36 samples in order, and packing what decode
\* returned for a 54-byte frame gives the frame back (decode is injective).
C20_RoundTrip ==
  retSamples # << >> =>
    /\ \A orig \in SampleSeqs : argBytes = Pack(orig) => retSamples = orig
    /\ IsFrame(argBytes) => Pack(retSamples) = argBytes

\* a packed sequence whose neighbours differ, decoded
C20_Witness ==
  \E orig \in SampleSeqs :
    /\ orig[1] # orig[2]
    /\ argHexString = << >> /\ argBytes = Pack(orig)
    /\ retSamples = orig

CountCalls(r, op) == Cardinality({ i \in 1..Len(r.calls) : r.calls[i].op = op })

CountLogs(r, type, message) ==
  Cardinality({ i \in 1..Len(r.logs) : r.logs[i] = << type, message >> })

\* C21: serial stop() clears the streaming flag first, then cancels the active
\* reader (if any), and only then writes 'B0\r\n'; the stop command is never
\* written while a read of the read loop is pending.
C21_SerialStopOrder ==
  (mode = "serial" /\ isRunning /\ serialPortRef # NULL) =>
    \A o \in StopOutcomes :
      LET r == handleStop(Cur, Cur, o)
      IN  /\ ~r.streamingRef
          /\ serialReaderRef # NULL =>
               (r.calls # << >> /\ r.calls[1].op = "reader.cancel")
          /\ \A j \in 1..Len(r.calls) :
               r.calls[j].op = "serial.write" =>
                 /\ r.calls[j].data = << "B", "0", "\r", "\n" >>
                 /\ readLoop.active =>
                      \E i \in 1..(j - 1) : r.calls[i].op = "reader.cancel"
                 /\ ~r.readLoop.active

\* a stop of a session whose read loop waits for data
C21_Witness ==
  /\ mode = "serial" /\ isRunning /\ streamingRef /\ readLoop.active
  /\ LET r == handleStop(Cur, Cur, AllOk)
     IN  /\ r.calls[1].op = "reader.cancel"
         /\ \E j \in 2..Len(r.calls) :
              IsSerialWrite(r.calls[j], << "B", "0", "\r", "\n" >>)
         /\ ~r.isRunning

\* C22: BLE stop() unregisters the notification listener before it writes the
\* stop command: once the write of FE 00 42 00 00 has begun, the listener is no
\* longer registered.
C22_BLEStopUnregistersFirst ==
  (mode = "bluetooth" /\ isRunning) =>
    \A o \in StopOutcomes :
      LET r == handleStop(Cur, Cur, o)
      IN  (\E j \in 1..Len(r.calls) : IsBLEWrite(r.calls[j], << 254, 0, 66, 0, 0 >>)) =>
            \A k \in 1..Len(r.rxListeners) : r.rxListeners[k].id # bleHandlerRef

\* C23: at most one 'characteristicvaluechanged' listener is registered on the
\* RX characteristic.
C23_OneListener == Len(rxListeners) <= 1

\* C24: when the stream reports end-of-data while streaming, the read loop
\* ends with a warning log and the streaming flag is cleared.
C24_EndOfDataClearsFlag ==
  (readLoop.active /\ streamingRef) =>
    LET r == readLoopEnd(Cur)
    IN  /\ HasLog(r, "warning", "Serial stream ended")
        /\ ~r.readLoop.active
        /\ ~r.streamingRef

\* C25: each stop() of a streaming session ends with a CSV flush attempt and
\* leaves the CSV buffer empty, whether the stop command write and the file
\* write succeed or fail.
C25_StopFlushes ==
  isRunning =>
    \A o \in StopOutcomes :
      LET r == handleStop(Cur, Cur, o)
      IN  r.flushes >= 1 /\ r.csvDataRef = << >>

\* C26: BLE connect() calls GATT connect at most 3 times; a failed attempt that
\* is not the third is followed by a retry; a successful attempt ends the loop
\* and goes on to service discovery; when all 3 attempts fail connect() ends
\* with status error and no device handle stored.
C26_GattRetries ==
  mode = "bluetooth" =>
    \A o \in ConnectOutcomes :
      LET r == handleConnect(Cur, Cur, o)
          n == CountCalls(r, "gatt.connect")
      IN  /\ n <= 3
          /\ o.request # "ok" => n = 0
          /\ (o.request = "ok" /\ o.gattFails < 3) =>
               /\ n = o.gattFails + 1
               /\ CountLogs(r, "warning", "Connection attempt failed, retrying") = o.gattFails
               /\ HasLog(r, "info", "GATT server connected")
               /\ o.live1 => /\ r.calls[Len(r.calls)].op = "server.getPrimaryService"
                             /\ CountCalls(r, "server.getPrimaryService") = 1
          /\ (o.request = "ok" /\ o.gattFails >= 3) =>
               /\ n = 3
               /\ CountLogs(r, "warning", "Connection attempt failed, retrying") = 2
               /\ ~HasCall(r, "server.getPrimaryService")
               /\ HasLogOfType(r, "error")
               /\ r.connStatus = "error"
               /\ ~r.bleDeviceRef.held

\* a connect that succeeds at the third attempt, and one whose three attempts fail
C26_Witness ==
  /\ mode = "bluetooth" /\ connStatus = "disconnected" /\ ~bleDeviceRef.held
  /\ LET r == handleConnect(Cur, Cur, [AllOk EXCEPT !.gattFails = 2])
     IN  CountCalls(r, "gatt.connect") = 3 /\ r.connStatus = "connected"
  /\ LET r == handleConnect(Cur, Cur, [AllOk EXCEPT !.gattFails = 3])
     IN  CountCalls(r, "gatt.connect") = 3 /\ r.connStatus = "error"

\* C27: BLE connect() sets status connected and stores the device handle only
\* after the server was read back connected after the connect and the service
\* and characteristics were resolved with the server still connected; a server
\* found disconnected at either check ends connect() with status error and no
\* handle.
C27_ConnectedOnlyWhenLive ==
  mode = "bluetooth" =>
    \A o \in ConnectOutcomes :
      LET r == handleConnect(Cur, Cur, o)
          linked == o.request = "ok" /\ o.gattFails < 3
      IN  /\ (r.connStatus = "connected" \/ r.bleDeviceRef.held) =>
               /\ linked /\ o.live1 /\ o.discover /\ o.live2
               /\ HasCall(r, "server.getPrimaryService")
               /\ r.connStatus = "connected"
               /\ r.bleDeviceRef = [held |-> TRUE, server |-> TRUE, linkUp |-> TRUE]
          /\ (linked /\ ~o.live1) =>
               /\ ~HasCall(r, "server.getPrimaryService")
               /\ r.connStatus = "error" /\ ~r.bleDeviceRef.held
          /\ (linked /\ o.live1 /\ o.discover /\ ~o.live2) =>
               r.connStatus = "error" /\ ~r.bleDeviceRef.held

\* a connect whose link drops while the characteristics are resolved
C27_Witness ==
  /\ mode = "bluetooth" /\ connStatus # "error"
  /\ LET r == handleConnect(Cur, Cur, [AllOk EXCEPT !.live2 = FALSE])
     IN  /\ HasCall(r, "server.getPrimaryService")
         /\ r.connStatus = "error" /\ ~r.bleDeviceRef.held
  /\ handleConnect(Cur, Cur, AllOk).bleDeviceRef.held

\* C28: a serial connect() that fails for a reason other than a dismissed
\* chooser ends with status error and no port handle held, also when the port
\* was requested and failed to open.
C28_SerialConnectFailure ==
  (mode = "serial" /\ supportsWebSerial) =>
    \A o \in ConnectOutcomes :
      (o.request \notin { "ok", "NotFoundError" } \/ (o.request = "ok" /\ ~o.open)) =>
        LET r == handleConnect(Cur, Cur, o)
        IN  r.connStatus = "error" /\ r.serialPortRef = NULL

\* a connect from a connected adapter whose new port fails to open
C28_Witness ==
  /\ mode = "serial" /\ supportsWebSerial /\ connStatus = "connected" /\ serialPortRef # NULL
  /\ LET r == handleConnect(Cur, Cur, [AllOk EXCEPT !.open = FALSE])
     IN  /\ HasCall(r, "port.open")
         /\ r.connStatus = "error" /\ r.serialPortRef = NULL

\* C29: after a switchMode to another mode the handle of the previous transport
\* is released, whether the calls of the teardown succeed or fail, so at most
\* one transport handle is held at any time.
C29_SwitchReleasesHandle ==
  /\ ~(serialPortRef # NULL /\ bleDeviceRef.held)
  /\ \A next \in Modes \ { mode } :
       Supported(next) =>
         \A o \in SwitchOutcomes :
           LET r == handleSwitchMode(Cur, Cur, next, o)
           IN  IF mode = "serial" THEN r.serialPortRef = NULL ELSE ~r.bleDeviceRef.held

Raw(points) == [ i \in 1..Len(points) |-> points[i].raw ]

LastN(seq, n) == IF Len(seq) <= n THEN seq ELSE SubSeq(seq, Len(seq) - n + 1, Len(seq))

\* the samples one inbound chunk or packet carries
ExpectedBatch(name) == IF name = "A" THEN decodeBytesToSamples(FrameA) ELSE << >>

\* C30: the raw values of the live buffer are the last min(2000, n) samples, in
\* arrival order, of the batches received since the reset: each inbound batch
\* is appended once, and samples leave only from the front.
C30_LiveBufferIsTail ==
  /\ (readLoop.active /\ readLoop.buffer = << >> /\ InboundAllowed) =>
       \A name \in SerialChunks :
         Raw(readLoopChunk(Cur, SerialChunk(name)).liveData)
           = LastN(Raw(liveData) \o ExpectedBatch(name), 2000)
  /\ (bleDeviceRef.held /\ bleDeviceRef.linkUp /\ rxListeners # << >> /\ InboundAllowed) =>
       \A name \in BLEPackets :
         Raw(dispatchNotification(Cur, 1, BLEPacket(name)).liveData)
           = LastN(Raw(liveData) \o ExpectedBatch(name), 2000)

\* C31: serial framing is independent of chunking: however the stream was
\* split into the chunks read so far, reading the rest leaves the frames that
\* reading the whole stream in one chunk leaves, each line decoded once.
C31_ChunkingIndependent ==
  inbound.name \in Streams =>
    LET whole == readLoopChunk(FramingStart(readLoop.csvEnabled), Stream(inbound.name))
        rest == readLoopChunk(Cur, Unread)
    IN  /\ rest.liveData = whole.liveData
        /\ rest.csvDataRef = whole.csvDataRef
        /\ rest.readLoop.buffer = whole.readLoop.buffer

\* the second frame of a stream of two frames is split across chunks
C31_Witness ==
  /\ inbound.name = "AB" /\ inbound.pos = Len(ChunkA) + 50
  /\ Len(readLoop.buffer) = 50
  /\ Len(liveData) = 36
  /\ Len(readLoopChunk(Cur, Unread).liveData) = 72

\* lines that do not match '<hex-seq>:<108 hex chars>': 107 and 109 payload
\* characters, no sequence number, no colon, a letter that is no hex digit, a
\* blank inside the payload
MalformedLines ==
  { LineShort,
    LineA \o << "0" >>,
    << ":" >> \o toHexText(FrameA),
    << "0", "A" >> \o toHexText(FrameA),
    << "0", "A", ":" >> \o [toHexText(FrameA) EXCEPT ![5] = "g"],
    << "0", "A", ":" >> \o SubSeq(toHexText(FrameA), 1, 54) \o << " " >>
                        \o SubSeq(toHexText(FrameA), 55, 108) }

\* notifications shorter than 56 bytes or whose byte 0 is not 0x00
MalformedPackets == { PacketMarker, PacketShort, << 0 >>, << 255, 19 >> \o FrameA }

SameData(r) ==
  /\ r.liveData = liveData
  /\ r.csvDataRef = csvDataRef
  /\ r.connStatus = connStatus
  /\ r.isRunning = isRunning

\* C32: a malformed inbound frame changes nothing: a serial line that does not
\* match the frame pattern and a BLE notification that is too short or lacks
\* the marker leave the live buffer, the CSV buffer, connection status and run
\* status (indeed the whole state) as they were, so that what follows is treated
\* as if the malformed frame had not arrived; a well-formed line that follows a
\* malformed one in the same chunk is still decoded.
C32_MalformedFrameIgnored ==
  /\ (readLoop.active /\ readLoop.buffer = << >>) =>
       /\ \A line \in MalformedLines : processLine(readLoop, Cur, line) = Cur
       /\ LET r == readLoopChunk(Cur, ChunkShort)
              both == readLoopChunk(Cur, ChunkShort \o ChunkA)
          IN  /\ SameData(r)
              /\ streamingRef => r = Cur
              /\ both.liveData = mergeSamples(liveData, decodeBytesToSamples(FrameA), 10)
  /\ (bleDeviceRef.held /\ rxListeners # << >>) =>
       \A packet \in MalformedPackets : dispatchNotification(Cur, 1, packet) = Cur

\* a BLE session that holds samples receives a packet without the marker, and a
\* serial session a short line; the frame that follows adds its samples
C32_Witness ==
  \/ /\ mode = "bluetooth" /\ streamingRef /\ rxListeners # << >> /\ liveData # << >>
     /\ bleDeviceRef.held
     /\ LET r == dispatchNotification(Cur, 1, PacketMarker)
        IN  /\ r.liveData = liveData
            /\ Len(dispatchNotification(r, 1, PacketA).liveData) > Len(liveData)
  \/ /\ mode = "serial" /\ streamingRef /\ readLoop.active /\ readLoop.buffer = << >>
     /\ liveData # << >>
     /\ LET r == readLoopChunk(Cur, ChunkShort)
        IN  /\ r.liveData = liveData
            /\ Len(readLoopChunk(r, ChunkA).liveData) > Len(liveData)

\* the document a flush of the accumulator writes: the header and row i holding
\* i and the signed value of sample i
ExpectedDocument ==
  [ header |-> "index,raw",
    rows |-> [ i \in 1..Len(csvDataRef) |-> << i - 1, csvDataRef[i] >> ] ]

\* a stop that writes a file writes the header and one row per accumulated sample
FlushWritesAccumulator ==
  isRunning =>
    \A o \in StopOutcomes :
      LET r == handleStop(Cur, Cur, o)
      IN  /\ Len(r.fileWritten) <= 1
          /\ \A k \in 1..Len(r.fileWritten) : r.fileWritten[k] = ExpectedDocument

\* C33: a flush that writes a file writes the header 'index,raw' and one row
\* 'i,<value of sample i>' per accumulated sample in arrival order, and the
\* rows are 36 per valid frame of the session: a valid frame adds 36 samples to
\* the accumulator, or none when it is not collected.
C33_CsvRows ==
  /\ FlushWritesAccumulator
  /\ (readLoop.active /\ readLoop.buffer = << >>) =>
       Len(readLoopChunk(Cur, ChunkA).csvDataRef) - Len(csvDataRef) \in { 0, 36 }
  /\ (bleDeviceRef.held /\ bleDeviceRef.linkUp /\ rxListeners # << >>) =>
       Len(dispatchNotification(Cur, 1, PacketA).csvDataRef) - Len(csvDataRef) \in { 0, 36 }

\* the single uppercase hexadecimal digit of a gain in 0..15
GainDigit(g) ==
  CASE g = 0 -> "0" [] g = 1 -> "1" [] g = 2 -> "2" [] g = 3 -> "3"
    [] g = 4 -> "4" [] g = 5 -> "5" [] g = 6 -> "6" [] g = 7 -> "7"
    [] g = 8 -> "8" [] g = 9 -> "9" [] g = 10 -> "A" [] g = 11 -> "B"
    [] g = 12 -> "C" [] g = 13 -> "D" [] g = 14 -> "E" [] g = 15 -> "F"

\* C34: for every gain g in 0..15 the serial set-gain command written is the 4
\* bytes 'G', the single uppercase hexadecimal digit of g, carriage return,
\* line feed.
C34_SerialGainCommand ==
  serialPortRef # NULL =>
    \A g \in 0..15, o \in GainOutcomes :
      LET r == setSerialGain(Cur, Cur, g, o)
      IN  /\ Len(r.calls) = 1
          /\ r.calls[1].op = "serial.write"
          /\ Len(r.calls[1].data) = 4
          /\ r.calls[1].data = << "G", GainDigit(g), "\r", "\n" >>

\* a connected serial adapter: gain 10 is written as GA, and the control writes
\* 15 as GF
C34_Witness ==
  /\ mode = "serial" /\ connStatus = "connected" /\ serialPortRef # NULL
  /\ setSerialGain(Cur, Cur, 10, AllOk).calls
       = << [op |-> "serial.write", data |-> << "G", "A", "\r", "\n" >>] >>
  /\ \E i \in 1..Len(handleSendGain(Cur, Cur, "15", AllOk).calls) :
       IsSerialWrite(handleSendGain(Cur, Cur, "15", AllOk).calls[i], << "G", "F", "\r", "\n" >>)

\* C38: a valid setGain(g) logs the success response 'Gain set to g' only if
\* the gain command was written to the transport of the mode: with no device
\* handle held or a failed write no success response is logged.
C38_SuccessOnlyWhenWritten ==
  connStatus = "connected" =>
    \A g \in GainInputs \ InvalidGainInputs, o \in GainOutcomes :
      LET r == handleSendGain(Cur, Cur, g, o)
          written == /\ HandleHeld
                     /\ r.calls = << ExpectedGainCommand(g) >>
                     /\ IF mode = "serial" THEN o.write ELSE bleOk(Cur, o.write)
      IN  HasLog(r, "response", "Gain set") => written

\* C35: a 'gattserverdisconnected' event of a device the adapter does not hold
\* (left GATT-connected by a failed connect, replaced by a later connect, or
\* torn down by a mode switch) changes neither connection status nor run status
\* nor the streaming flag.
C35_StaleDisconnectIgnored ==
  staleLinks > 0 =>
    LET r == disconnectHandler([Cur EXCEPT !.staleLinks = @ - 1])
    IN  /\ r.connStatus = connStatus
        /\ r.isRunning = isRunning
        /\ r.streamingRef = streamingRef

\* C36: the live buffer gains samples only while the streaming flag is set: a
\* BLE notification handled and a serial chunk processed while the flag is
\* false add nothing to the live buffer.
C36_AppendOnlyWhileStreaming ==
  ~streamingRef =>
    /\ (bleDeviceRef.held /\ bleDeviceRef.linkUp /\ rxListeners # << >>) =>
         \A name \in BLEPackets :
           dispatchNotification(Cur, 1, BLEPacket(name)).liveData = liveData
    /\ readLoop.active =>
         \A name \in SerialChunks :
           readLoopChunk(Cur, SerialChunk(name)).liveData = liveData

ReaderReleased(r) == ~r.readLoop.active /\ r.serialReaderRef = NULL

\* a start() that follows, with a port held and the status connected, acquires a
\* new reader
CanRestart(r) ==
  (r.mode = "serial" /\ r.serialPortRef # NULL /\ r.connStatus = "connected") =>
    LET rr == handleStart(Settled(r), Settled(r), AllOk)
    IN  /\ rr.readLoop.active
        /\ rr.serialReaderRef # NULL
        /\ CountCalls(rr, "readable.getReader") = 1
        /\ ~HasLog(rr, "error", "Serial read error")

\* C39: the read loop never holds more than one reader (a reader is held exactly
\* while one loop is pending); after stop() cancelled the reader, and after a
\* read error, the loop has exited and released its lock, and a following
\* start() acquires a new reader.
C39_ReaderLifecycle ==
  /\ (serialReaderRef # NULL) <=> readLoop.active
  /\ (mode = "serial" /\ isRunning /\ serialPortRef # NULL) =>
       \A o \in StopOutcomes :
         LET r == handleStop(Cur, Cur, o)
         IN  /\ ReaderReleased(r)
             /\ readLoop.active =>
                  /\ CountCalls(r, "reader.cancel") = 1
                  /\ CountCalls(r, "reader.releaseLock") = 1
             /\ CanRestart(r)
  /\ readLoop.active =>
       LET r == readLoopError(Cur)
       IN  /\ ReaderReleased(r)
           /\ CountCalls(r, "reader.releaseLock") = 1
           /\ CanRestart(r)

\* a streaming serial session: stop, and a read error, leave a state from which
\* start acquires a reader again
C39_Witness ==
  /\ mode = "serial" /\ isRunning /\ streamingRef /\ connStatus = "connected"
  /\ readLoop.active /\ serialReaderRef # NULL
  /\ LET r == handleStop(Cur, Cur, AllOk)
     IN  /\ ReaderReleased(r)
         /\ handleStart(Settled(r), Settled(r), AllOk).readLoop.active
  /\ LET r == readLoopError(Cur)
     IN  /\ ReaderReleased(r)
         /\ handleStart(Settled(r), Settled(r), AllOk).readLoop.active

====
